---- MODULE Spec2Model ----
(***************************************************************************)
(* Model of the ioBroker docker plugin: the reconciliation controller      *)
(* (DockerManagerOfOwnContainers) on top of the runtime access layer       *)
(* (DockerManager), with the container runtime as environment.             *)
(*                                                                         *)
(* JavaScript values are tagged records [t, v]; strings are sequences of   *)
(* tokens, so that startsWith / includes / concatenation are computed.     *)
(* A ContainerConfig is an "obj" value whose v is a function from the      *)
(* keys that are present to their values.                                  *)
(***************************************************************************)
EXTENDS Integers, Sequences, FiniteSets, TLC

VARIABLES
    driver,              \* DockerManager.#driver: "cli" (child process) or "api" (dockerode)
    declared,            \* the configs handed to the constructor (the manifest's configs)
    ownContainers,       \* DockerManagerOfOwnContainers.#ownContainers
    monitoringInterval,  \* #monitoringInterval is set
    ownContainersStats,  \* #ownContainersStats: name -> last recorded status
    waitAllChecked,      \* the #waitAllChecked promise is resolved
    destroyed,           \* destroy() has been called
    pass,                \* the running #checkOwnContainers call (its locals and position)
    turn,                \* flips each time #checkOwnContainers runs on after an await
    pending,             \* #checkOwnContainers calls of ownContainerAdd/Modify not yet run
    call,                \* the last ownContainerAdd/Modify/Remove call, and where it stands
    plugin,              \* DockerPlugin: "loading" in init(), "waiting" for
                         \* instanceIsReady(), "started" by init() or "ready"
    compose,             \* the service of the compose file init() reads
    mon,                 \* the running #ownContainersMonitor call
    des,                 \* the running destroy() call
    rtContainers,        \* runtime: the containers (docker ps -a)
    rtNetworks,          \* runtime: the network names
    rtVolumes,           \* runtime: the volume names
    rtImages,            \* runtime: the image references present locally
    nextId,              \* runtime: the id of the next container created
    lastOp,              \* the runtime operation issued by the last step
    hist,                \* the mutations the pass issued for its current container
    seeded,              \* volumes written by a seed copy: name -> how the volume was found
    budget,              \* what the environment may still do: faults, crashes, restarts, calls
    calc                 \* a call of the converter, the template engine or the differ:
                         \* its arguments and, once it has returned, its result

vars == <<driver, declared, ownContainers, monitoringInterval, ownContainersStats,
          waitAllChecked, destroyed, pass, mon, des, rtContainers, rtNetworks,
          rtVolumes, rtImages, nextId, lastOp, hist, seeded, budget, turn,
          pending, call, plugin, compose, calc>>

----------------------------------------------------------------------------
(* Bounds of the model *)

MaxFaults == 1      \* runtime operations that fail
MaxEvents == 1      \* things that happen to the controller and the runtime from outside

----------------------------------------------------------------------------
(* JavaScript values *)

Undef == [t |-> "undef", v |-> <<>>]
JBool(b) == [t |-> "bool", v |-> b]
JNum(n) == [t |-> "num", v |-> n]   \* n: the digits of the number
JStr(s) == [t |-> "str", v |-> s]
JArr(a) == [t |-> "arr", v |-> a]
JObj(f) == [t |-> "obj", v |-> f]
Throw == [t |-> "throw", v |-> <<>>]

Keys(o) == IF o.t = "obj" THEN DOMAIN o.v ELSE {}
Get(o, k) == IF k \in Keys(o) THEN o.v[k] ELSE Undef
Put(o, k, x) == JObj((k :> x) @@ o.v)
Del(o, k) == JObj([j \in DOMAIN o.v \ {k} |-> o.v[j]])

\* x === y for the value shapes the controller compares (objects by identity: never equal)
StrictEq(x, y) == IF x.t = y.t /\ x.t \notin {"arr", "obj"} THEN x.v = y.v ELSE FALSE
\* !x
Falsy(x) ==
    CASE x.t = "undef" -> TRUE
      [] x.t = "bool" -> ~x.v
      [] x.t = "num" -> x.v = <<"0">>
      [] x.t = "str" -> x.v = <<>>
      [] OTHER -> FALSE
IsTrue(x) == IF x.t = "bool" THEN x.v ELSE FALSE
IsFalse(x) == IF x.t = "bool" THEN ~x.v ELSE FALSE
IsStr(x, s) == IF x.t = "str" THEN x.v = s ELSE FALSE

StartsWith(s, p) == Len(s) >= Len(p) /\ SubSeq(s, 1, Len(p)) = p
Includes(s, tok) == \E i \in 1..Len(s) : s[i] = tok

----------------------------------------------------------------------------
(* Strings of the model's universe *)

Prefix == <<"iob_ad_0">>          \* getDefaultContainerName() for namespace "ad.0"
Sep == <<"_">>
Namespace == <<"ad.0">>
Digit == <<"1", "2", "3", "4", "5", "6", "7", "8", "9">>

RECURSIVE NumToStr(_)
\* Number.prototype.toString for n >= 0, as a sequence of digit tokens
NumToStr(n) ==
    IF n < 10
        THEN <<IF n = 0 THEN "0" ELSE Digit[n]>>
        ELSE NumToStr(n \div 10) \o <<IF n % 10 = 0 THEN "0" ELSE Digit[n % 10]>>

\* the position of a mount target under localeCompare
Collate(s) ==
    CASE s = <<"/config">> -> 1
      [] s = <<"/data">> -> 2
      [] s = <<"/seed">> -> 3
      [] OTHER -> 0

\* key.startsWith('iob'), for the keys a config can carry
KeyStartsWithIob(k) ==
    k \in {"iobEnabled", "iobStopOnUnload", "iobAutoImageUpdate", "iobMonitoringEnabled",
           "iobWaitForReady", "iobBackup", "iobCopyVolume", "iobAutoCopyFrom",
           "iobAutoCopyFromForce", "iobroker", "iob_backup"}

RECURSIVE InsertSorted(_, _)
InsertSorted(sorted, m) ==
    IF sorted = <<>> THEN <<m>>
    ELSE IF Collate(Get(m, "target").v) < Collate(Get(sorted[1], "target").v)
        THEN <<m>> \o sorted
        ELSE <<sorted[1]>> \o InsertSorted(Tail(sorted), m)

RECURSIVE SortByTarget(_)
\* mounts.sort((a, b) => a.target.localeCompare(b.target)): stable
SortByTarget(ms) ==
    IF ms = <<>> THEN <<>>
    ELSE InsertSorted(SortByTarget(SubSeq(ms, 1, Len(ms) - 1)), ms[Len(ms)])

RECURSIVE ParseDigits(_)
ParseDigits(digits) ==
    IF digits = <<>> THEN 0
    ELSE 10 * ParseDigits(SubSeq(digits, 1, Len(digits) - 1))
         + (IF digits[Len(digits)] = "0" THEN 0
            ELSE CHOOSE n \in 1..Len(Digit) : Digit[n] = digits[Len(digits)])
\* parseInt(x, 10) of a number or of a string of digits
parseInt(x) == ParseDigits(x.v)

\* the position of a host address under localeCompare
CollateIP(s) == IF s = <<"0.0.0.0">> THEN 1 ELSE IF s = <<"127.0.0.1">> THEN 2 ELSE 0

\* the comparator of the three sorts of ports (part_002 106-114, 119-127, 242-250): the
\* container ports when the host ports differ, else the host addresses when both
\* have one and they differ, else 0
ComparePorts(a, b) ==
    IF ~StrictEq(Get(a, "hostPort"), Get(b, "hostPort"))
        THEN parseInt(Get(a, "containerPort")) - parseInt(Get(b, "containerPort"))
    ELSE IF ~StrictEq(Get(a, "hostIP"), Get(b, "hostIP"))
            /\ ~Falsy(Get(a, "hostIP")) /\ ~Falsy(Get(b, "hostIP"))
        THEN CollateIP(Get(a, "hostIP").v) - CollateIP(Get(b, "hostIP").v)
    ELSE 0

RECURSIVE InsertPort(_, _)
InsertPort(sorted, p) ==
    IF sorted = <<>> THEN <<p>>
    ELSE IF ComparePorts(p, sorted[1]) < 0 THEN <<p>> \o sorted
    ELSE <<sorted[1]>> \o InsertPort(Tail(sorted), p)

RECURSIVE SortPorts(_)
\* ports.sort(comparator): stable, an element moves before another one only when the
\* comparator puts it there
SortPorts(ps) ==
    IF ps = <<>> THEN <<>>
    ELSE InsertPort(SortPorts(SubSeq(ps, 1, Len(ps) - 1)), ps[Len(ps)])

----------------------------------------------------------------------------
(* Config canonicalizer and differ *)

dockerDefaults ==
    [tty |-> JBool(FALSE), stdinOpen |-> JBool(FALSE), attachStdin |-> JBool(FALSE),
     attachStdout |-> JBool(FALSE), attachStderr |-> JBool(FALSE), openStdin |-> JBool(FALSE),
     publishAllPorts |-> JBool(FALSE), readOnly |-> JBool(FALSE), user |-> JStr(<<>>),
     workdir |-> JStr(<<>>), domainname |-> JStr(<<>>), macAddress |-> JStr(<<>>),
     networkMode |-> JStr(<<"bridge">>)]

\* JSON.stringify(value) === JSON.stringify(def), the defaults being primitives
isDefault(value, k) == k \in DOMAIN dockerDefaults /\ StrictEq(value, dockerDefaults[k])

TypeOf(x) == IF x.t \in {"arr", "obj", "null"} THEN "object" ELSE x.t
GetAny(o, k) == IF o.t = "obj" THEN Get(o, k) ELSE Undef
SkipKey(k) == KeyStartsWithIob(k) \/ k \in {"hostname", "dependsOn", "devices"}

RECURSIVE deepCompare(_, _)
deepCompare(object1, object2) ==
    LET o1 == IF object1.t = "num" THEN JStr(object1.v) ELSE object1
        o2 == IF object2.t = "num" THEN JStr(object2.v) ELSE object2
    IN  IF TypeOf(o1) # TypeOf(o2) THEN FALSE
        ELSE IF TypeOf(o1) # "object" \/ o1.t = "null" \/ o2.t = "null"
            THEN IF o1.t = o2.t THEN o1.v = o2.v ELSE FALSE
        ELSE IF o1.t = "arr"
            THEN /\ o2.t = "arr"
                 /\ Len(o1.v) = Len(o2.v)
                 /\ \A i \in 1..Len(o1.v) : deepCompare(o1.v[i], o2.v[i])
        ELSE \A k \in {j \in DOMAIN o1.v : ~SkipKey(j)} :
                 deepCompare(o1.v[k], IF o2.t = "obj" THEN Get(o2, k) ELSE Undef)

IsEmptyValue(x) ==
    CASE x.t \in {"undef", "null"} -> TRUE
      [] x.t = "str" -> x.v = <<>>
      [] x.t = "arr" -> Len(x.v) = 0
      [] x.t = "obj" -> DOMAIN x.v = {}
      [] OTHER -> FALSE

RECURSIVE removeUndefined(_)
removeUndefined(x) ==
    IF x.t = "arr" THEN
        LET mapped == [i \in 1..Len(x.v) |->
                         IF x.v[i].t \in {"arr", "obj"} THEN removeUndefined(x.v[i]) ELSE x.v[i]]
            kept == SelectSeq(mapped, LAMBDA e : e.t # "undef")
        IN  IF Len(kept) = 0 THEN Undef ELSE JArr(kept)
    ELSE IF x.t = "obj" THEN
        LET mapped == [k \in DOMAIN x.v |->
                         IF x.v[k].t \in {"arr", "obj"} THEN removeUndefined(x.v[k]) ELSE x.v[k]]
            keep == {k \in DOMAIN x.v : ~IsEmptyValue(mapped[k])}
        IN  IF keep = {} THEN Undef ELSE JObj([k \in keep |-> mapped[k]])
    ELSE IF IsStr(x, <<>>) THEN Undef
    ELSE x

\* '/var/lib/docker/volumes/<name>/_data', the Source docker reports for a named volume
VolumePath(name) == <<"/var/lib/docker/volumes/">> \o name \o <<"/_data">>
IsVolumePath(s) == Len(s) >= 2 /\ s[1] = "/var/lib/docker/volumes/" /\ s[Len(s)] = "/_data"
VolumeOfPath(s) == SubSeq(s, 2, Len(s) - 1)

\* the 'mounts' branch of cleanContainerConfig
CleanMounts(ms, mayChange) ==
    SortByTarget([i \in 1..Len(ms.v) |->
        LET m == ms.v[i]
            src == Get(m, "source")
            m1 == IF mayChange /\ src.t = "str" /\ IsVolumePath(src.v)
                      THEN Put(m, "source", JStr(VolumeOfPath(src.v))) ELSE m
        IN  Del(m1, "readOnly")])

\* the 'environment' and 'labels' branches of cleanContainerConfig
CleanMap(o) == JObj([k \in {j \in DOMAIN o.v : ~Falsy(o.v[j])} |-> o.v[k]])

\* the 'ports' branch of cleanContainerConfig: the protocol 'tcp' is dropped, and the
\* ports are sorted
CleanPorts(ps) ==
    SortPorts([i \in 1..Len(ps.v) |->
        IF IsStr(Get(ps.v[i], "protocol"), <<"tcp">>) THEN Del(ps.v[i], "protocol") ELSE ps.v[i]])

cleanContainerConfig(config, mayChange) ==
    LET obj == removeUndefined(config)
        keep == {k \in Keys(obj) : ~isDefault(obj.v[k], k)}
    IN  JObj([k \in keep |->
            CASE k = "mounts" /\ obj.v[k].t = "arr" -> JArr(CleanMounts(obj.v[k], mayChange))
              [] k = "ports" /\ obj.v[k].t = "arr" -> JArr(CleanPorts(obj.v[k]))
              [] k \in {"environment", "labels"} /\ obj.v[k].t = "obj" -> CleanMap(obj.v[k])
              [] k = "command" /\ obj.v[k].t = "arr" /\ Len(obj.v[k].v) = 1
                     /\ obj.v[k].v[1].t = "str" -> obj.v[k].v[1]
              [] OTHER -> obj.v[k]])

DiffPath(key, sub, idx) == [key |-> key, sub |-> sub, idx |-> idx]

\* a compareConfigs that would compare the mounts in the order they are given
CompareMountsInOrder(ms, rewrite) ==
    JArr([i \in 1..Len(ms.v) |->
            LET m == Del(ms.v[i], "readOnly")
                src == Get(m, "source")
            IN  IF rewrite /\ src.t = "str" /\ IsVolumePath(src.v)
                    THEN Put(m, "source", JStr(VolumeOfPath(src.v))) ELSE m])

\* what compareConfigs does to desired.mounts and existing.mounts before comparing
CompareMounts(ms, rewrite) ==
    LET sorted == SortByTarget(ms.v)
    IN  JArr([i \in 1..Len(sorted) |->
            LET m == Del(sorted[i], "readOnly")
                src == Get(m, "source")
            IN  IF rewrite /\ src.t = "str" /\ IsVolumePath(src.v)
                    THEN Put(m, "source", JStr(VolumeOfPath(src.v))) ELSE m])

\* what compareConfigs does to desired.ports and existing.ports before comparing
SortedPorts(cfg) ==
    IF Get(cfg, "ports").t = "arr"
        THEN Put(cfg, "ports", JArr(SortPorts(Get(cfg, "ports").v)))
        ELSE cfg

CompareView(cfg, rewrite) ==
    SortedPorts(IF Get(cfg, "mounts").t = "arr"
                    THEN Put(cfg, "mounts", CompareMounts(Get(cfg, "mounts"), rewrite))
                    ELSE cfg)

\* a compareConfigs that would go through the keys of both configs
KeysOfBoth(desired, existing) == Keys(desired) \cup Keys(existing)
\* Object.keys(desired): only the keys of the desired config are compared
ComparedKeys(desired, existing) == Keys(desired)

\* the field paths at which desired and existing differ, or Throw for the TypeError of
\* existing[key][subKey] when desired[key] is an object and existing[key] is undefined
compareConfigs(desiredIn, existingIn) ==
    LET desired == CompareView(desiredIn, FALSE)
        existing == CompareView(existingIn, TRUE)
        keys == {k \in ComparedKeys(desired, existing) : ~SkipKey(k)}
        IsPlainObj(x) == x.t = "obj"
        throws(k) ==
            /\ IsPlainObj(Get(desired, k))
            /\ DOMAIN Get(desired, k).v # {}
            /\ Get(existing, k).t \in {"undef", "null"}
        diffsOf(k) ==
            LET d == Get(desired, k)
                e == Get(existing, k)
            IN  IF d.t = "arr" THEN
                    IF e.t # "arr" \/ Len(d.v) # Len(e.v) THEN {DiffPath(k, "", 0)}
                    ELSE {DiffPath(k, "", i) : i \in {j \in 1..Len(d.v) : ~deepCompare(d.v[j], e.v[j])}}
                ELSE IF d.t = "obj" THEN
                    {DiffPath(k, s, 0) : s \in {j \in DOMAIN d.v : ~deepCompare(d.v[j], GetAny(e, j))}}
                ELSE IF StrictEq(d, e) THEN {} ELSE {DiffPath(k, "", 0)}
    IN  IF \E k \in keys : throws(k) THEN Throw
        ELSE [t |-> "diffs", v |-> UNION {diffsOf(k) : k \in keys}]

----------------------------------------------------------------------------
(* The runtime's view of a container, and the way back to a config *)

\* `${key}=${value}` of toDockerRun ('-e', only for a truthy key and value) and of
\* getDockerodeConfig (Env, every key)
EnvEntries(config, drv) ==
    LET env == Get(config, "environment")
    IN  IF env.t # "obj" THEN {}
        ELSE {<<k, "=">> \o env.v[k].v :
                 k \in {j \in DOMAIN env.v : env.v[j].t = "str" /\ (drv = "api" \/ ~Falsy(env.v[j]))}}

\* what `docker inspect` reports for a container created from config by toDockerRun
\* (driver "cli") or getDockerodeConfig (driver "api"): neither hands tmpfs or
\* healthcheck to the runtime
InspectOf(config, drv) ==
    LET ms == Get(config, "mounts")
        nm == Get(config, "networkMode")
        lb == Get(config, "labels")
    IN  [Name |-> <<"/">> \o Get(config, "name").v,
         Image |-> Get(config, "image").v,
         Env |-> EnvEntries(config, drv) \cup {<<"PATH", "=", "/usr/bin">>},
         Labels |-> IF lb.t = "obj" THEN lb ELSE JObj(<<>>),
         Mounts |-> IF ms.t # "arr" THEN <<>>
                    ELSE [i \in 1..Len(ms.v) |->
                            LET m == ms.v[i]
                            IN  [Type |-> Get(m, "type").v,
                                 Source |-> IF IsStr(Get(m, "type"), <<"volume">>)
                                               THEN VolumePath(Get(m, "source").v)
                                               ELSE Get(m, "source").v,
                                 Destination |-> Get(m, "target").v,
                                 RW |-> ~IsTrue(Get(m, "readOnly"))]],
         NetworkMode |-> IF nm.t = "str" /\ ~Falsy(nm) THEN nm.v ELSE <<"bridge">>]

mapInspectToConfig(inspect) ==
    LET obj == JObj(
            [image |-> JStr(inspect.Image),
             name |-> JStr(IF Len(inspect.Name) > 0 /\ inspect.Name[1] = "/"
                               THEN Tail(inspect.Name) ELSE inspect.Name),
             environment |-> JObj([k \in {e[1] : e \in inspect.Env} |->
                                     JStr(LET e == CHOOSE x \in inspect.Env : x[1] = k
                                          IN  SubSeq(e, 3, Len(e)))]),
             labels |-> inspect.Labels,
             mounts |-> JArr([i \in 1..Len(inspect.Mounts) |->
                                JObj([type |-> JStr(inspect.Mounts[i].Type),
                                      source |-> JStr(inspect.Mounts[i].Source),
                                      target |-> JStr(inspect.Mounts[i].Destination),
                                      readOnly |-> JBool(inspect.Mounts[i].RW)])]),
             networkMode |-> JStr(inspect.NetworkMode)])
    IN  cleanContainerConfig(obj, TRUE)

\* #modifyContainerName: the prefixed name, or Throw
modifyContainerName(containerName) ==
    IF IsTrue(containerName) \/ IsStr(containerName, <<"true">>) \/ Falsy(containerName)
        THEN JStr(Prefix)
    ELSE IF containerName.t = "str"
        THEN IF containerName.v # Prefix /\ ~StartsWith(containerName.v, Prefix \o Sep)
                 THEN JStr(Prefix \o Sep \o containerName.v)
                 ELSE containerName
    ELSE Throw

----------------------------------------------------------------------------
(* The configs of the model *)

Mount(source, target, from, force) ==
    JObj((IF from THEN "iobAutoCopyFrom" :> JStr(<<"seed">>) ELSE <<>>)
         @@ (IF force THEN "iobAutoCopyFromForce" :> JBool(TRUE) ELSE <<>>)
         @@ [type |-> JStr(<<"volume">>), source |-> JStr(source), target |-> JStr(target)])

Config(name, enabled, monitoring, net, mounts, extra) ==
    JObj(extra
         @@ (IF net.t # "undef" THEN "networkMode" :> net ELSE <<>>)
         @@ (IF Len(mounts) > 0 THEN "mounts" :> JArr(mounts) ELSE <<>>)
         @@ [name |-> name,
             image |-> JStr(<<"app">>),
             iobEnabled |-> JBool(enabled),
             iobStopOnUnload |-> JBool(TRUE),
             iobAutoImageUpdate |-> JBool(FALSE),
             iobMonitoringEnabled |-> JBool(monitoring),
             environment |-> JObj([MODE |-> JStr(<<"one">>)])])

----------------------------------------------------------------------------
(* State of the controller and of the runtime *)

NoInfo == [names |-> <<>>, id |-> <<>>, status |-> "none"]
\* the id the runtime gives to its n-th container
ContainerId(n) == <<"#">> \o NumToStr(n)
NoOp == [actor |-> "none", op |-> "none", target |-> <<>>, flags |-> {}]
Op(actor, op, target) == [actor |-> actor, op |-> op, target |-> target, flags |-> {}]

IdlePass ==
    [pc |-> "idle", c |-> 0, status |-> {}, images |-> {}, networkChecked |-> {},
     anyStartedOrRunning |-> FALSE, volumes |-> {}, m |-> 0, containerInfo |-> NoInfo,
     image |-> FALSE, rc |-> NoInfo, desired |-> Undef, createdVols |-> {},
     processed |-> {}, errors |-> FALSE, ops |-> {}, seen |-> "none", diff |-> "none",
     idem |-> FALSE, result |-> "none", newImage |-> "none"]
\* ---- Template engine (templates.ts) ----

NoCalc == [op |-> "none"]
Hang == [t |-> "hang", v |-> <<>>]      \* a loop that never ends

\* the characters of [.a-zA-Z0-9_] and of \w, token by token
PathDelims == {".", "_"}
Marks == {"{{", "}}", "${", "}", ":-", "=", "=>", ",", ":", "/", " "}
IsWord(tok) == tok \notin Marks /\ tok # "."
IsPathTok(tok) == tok \notin Marks

RECURSIVE Join(_, _)
\* Array.prototype.join(sep) of an array of token strings
Join(strs, sep) ==
    IF Len(strs) = 0 THEN <<>>
    ELSE IF Len(strs) = 1 THEN strs[1]
    ELSE strs[1] \o sep \o Join(Tail(strs), sep)

RECURSIVE String(_)
\* String(value)
String(x) ==
    CASE x.t = "str" -> x.v
      [] x.t = "num" -> x.v
      [] x.t = "bool" -> IF x.v THEN <<"true">> ELSE <<"false">>
      [] x.t = "arr" -> Join([i \in 1..Len(x.v) |-> String(x.v[i])], <<",">>)
      [] x.t = "obj" -> <<"[object Object]">>
      [] OTHER -> <<"undefined">>

RECURSIVE Split(_, _)
\* String.prototype.split(sep) for a separator of one token
Split(s, sep) ==
    IF \A i \in 1..Len(s) : s[i] # sep THEN <<s>>
    ELSE LET i == CHOOSE n \in 1..Len(s) : s[n] = sep /\ \A m \in 1..(n - 1) : s[m] # sep
         IN  <<SubSeq(s, 1, i - 1)>> \o Split(SubSeq(s, i + 1, Len(s)), sep)

\* String.prototype.includes(sub)
Contains(s, sub) == \E i \in 0..(Len(s) - Len(sub)) : SubSeq(s, i + 1, i + Len(sub)) = sub
\* a replacement of field[from..to] by a text that holds field[from..to] again: the next
\* iteration finds the same match with the same value, and so does every later one
Recurs(field, from, to, by) == Contains(by, SubSeq(field, from, to))

\* str.replace(match[0], by) where match[0] is field[from..to]
Replace(field, from, to, by) == SubSeq(field, 1, from - 1) \o by \o SubSeq(field, to + 1, Len(field))

RECURSIVE Lookup(_, _)
\* the loop of getAttributeFromObject; a part is a key when it is one token
Lookup(current, parts) ==
    IF Len(parts) = 0 THEN current
    ELSE IF current.t = "obj" /\ Len(parts[1]) = 1 /\ parts[1][1] \in Keys(current)
        THEN Lookup(current.v[parts[1][1]], Tail(parts))
        ELSE Undef

\* templates.ts 5-16
getAttributeFromObject(instanceConfig, attributePath) ==
    Lookup(instanceConfig, Split(attributePath, "."))

\* the least and the greatest number of a set of numbers
Least(set) == CHOOSE n \in set : \A m \in set : n <= m
Greatest(set) == CHOOSE n \in set : \A m \in set : m <= n

\* the first match of /{{(.*?)}}/ in field, as <<from, to>>, or <<>>
CurlyFrom(field, i) == <<i, Least({n \in (i + 1)..Len(field) : field[n] = "}}"})>>
CurlyFirst(field, opens) == IF opens = {} THEN <<>> ELSE CurlyFrom(field, Least(opens))
CurlyMatch(field) ==
    CurlyFirst(field, {i \in 1..Len(field) :
                          field[i] = "{{" /\ \E j \in (i + 1)..Len(field) : field[j] = "}}"})

\* a match at field[i] of the pattern of line 67 or (generic) of line 108: "${", the
\* name, an optional ":-" with a default free of "}", and "}"; the result is
\* <<from, end of the name, to>> or <<>>
IsNameToken(tok, generic) == IF generic THEN IsWord(tok) \/ tok = "_" ELSE IsPathTok(tok)
NameEnd(field, i, generic) ==
    Greatest({e \in i..Len(field) : \A m \in (i + 1)..e : IsNameToken(field[m], generic)})
IsName(field, i, e, generic) ==
    IF generic THEN e >= i + 1
    ELSE e >= i + 3 /\ field[i + 1] = "config" /\ field[i + 2] \in PathDelims
\* the "}" that ends the match whose name ends at e, or 0
CloseOf(field, e) ==
    IF e + 1 > Len(field) THEN 0
    ELSE IF field[e + 1] = "}" THEN e + 1
    ELSE IF field[e + 1] = ":-" /\ \E c \in (e + 2)..Len(field) : field[c] = "}"
        THEN Least({c \in (e + 2)..Len(field) : field[c] = "}"})
    ELSE 0
DollarTo(i, e, to) == IF to = 0 THEN <<>> ELSE <<i, e, to>>
DollarFrom(field, i, e, generic) ==
    IF IsName(field, i, e, generic) THEN DollarTo(i, e, CloseOf(field, e)) ELSE <<>>
DollarAt(field, i, generic) ==
    IF field[i] = "${" THEN DollarFrom(field, i, NameEnd(field, i, generic), generic) ELSE <<>>
DollarFirst(field, starts, generic) ==
    IF starts = {} THEN <<>> ELSE DollarAt(field, Least(starts), generic)
DollarMatch(field, generic) ==
    DollarFirst(field, {i \in 1..Len(field) : DollarAt(field, i, generic) # <<>>}, generic)

\* Number(defaultValue) when it is a number: the digits, and 0 for the empty string
IsNumeric(s) == \A i \in 1..Len(s) : s[i] \in {"0", "1", "2", "3", "4", "5", "6", "7", "8", "9"}
\* templates.ts 87-97 and 123-133: a default that is the whole field
Coerce(defaultValue) ==
    IF defaultValue = <<"true">> THEN JBool(TRUE)
    ELSE IF defaultValue = <<"false">> THEN JBool(FALSE)
    ELSE IF IsNumeric(defaultValue) THEN JNum(IF defaultValue = <<>> THEN <<"0">> ELSE defaultValue)
    ELSE JStr(defaultValue)

\* a parseField that would splice every value in
IsNeverWhole(field, from, to) == FALSE
\* match[0] === field, match[0] being field[from..to]
IsWhole(field, from, to) == from = 1 /\ to = Len(field)

\* how a loop of parseField ends: with a return statement, or with the field it leaves
Return(value) == [returned |-> TRUE, v |-> value]
Left(field) == [returned |-> FALSE, v |-> JStr(field)]

RECURSIVE CurlyLoop(_, _, _)
\* templates.ts 41-52: the value found, or not, for '{{config.path}}'
CurlyValue(field, instanceConfig, additionalConfig, m, value) ==
    IF value.t = "undef"
        THEN CurlyLoop(Replace(field, m[1], m[2], <<>>), instanceConfig, additionalConfig)
    ELSE IF IsWhole(field, m[1], m[2]) THEN Return(value)
    ELSE IF Recurs(field, m[1], m[2], String(value)) THEN Return(Hang)
    ELSE CurlyLoop(Replace(field, m[1], m[2], String(value)), instanceConfig, additionalConfig)
\* templates.ts 36-63: match[1] is inner; additionalConfig[field] has the field, braces
\* included, as key, and no auxiliary variable has such a name
CurlyInner(field, instanceConfig, additionalConfig, m, inner) ==
    IF StartsWith(inner, <<"config", ".">>)
        THEN IF Len(inner) = 2 THEN Return(Hang)
             ELSE CurlyValue(field, instanceConfig, additionalConfig, m,
                             getAttributeFromObject(instanceConfig, SubSeq(inner, 3, Len(inner))))
    ELSE IF additionalConfig.t = "undef" THEN Return(Throw)
    ELSE CurlyLoop(Replace(field, m[1], m[2], <<>>), instanceConfig, additionalConfig)
CurlyOn(field, instanceConfig, additionalConfig, m) ==
    IF m = <<>> THEN Left(field)
    ELSE CurlyInner(field, instanceConfig, additionalConfig, m, SubSeq(field, m[1] + 1, m[2] - 1))
\* templates.ts 31-64
CurlyLoop(field, instanceConfig, additionalConfig) ==
    CurlyOn(field, instanceConfig, additionalConfig, CurlyMatch(field))

\* match[3] of a match m with a default
DefaultOf(field, m) == SubSeq(field, m[2] + 2, m[3] - 1)
\* templates.ts 71-77: 'config_a_b' is read as 'config.a.b', and 'config.' is cut off
PathOf(name) ==
    SubSeq(IF Includes(name, "_") /\ ~Includes(name, ".")
               THEN [i \in 1..Len(name) |-> IF name[i] = "_" THEN "." ELSE name[i]]
               ELSE name,
           3, Len(name))

RECURSIVE ConfigLoop(_, _)
\* templates.ts 78-103
ConfigValue(field, instanceConfig, m, value) ==
    IF value.t # "undef"
        THEN IF IsWhole(field, m[1], m[3]) THEN Return(value)
             ELSE IF Recurs(field, m[1], m[3], String(value)) THEN Return(Hang)
             ELSE ConfigLoop(Replace(field, m[1], m[3], String(value)), instanceConfig)
    ELSE IF field[m[2] + 1] = ":-"
        THEN IF IsWhole(field, m[1], m[3]) THEN Return(Coerce(DefaultOf(field, m)))
             ELSE ConfigLoop(Replace(field, m[1], m[3], DefaultOf(field, m)), instanceConfig)
    ELSE ConfigLoop(Replace(field, m[1], m[3], <<>>), instanceConfig)
ConfigOn(field, instanceConfig, m) ==
    IF m = <<>> THEN Left(field)
    ELSE ConfigValue(field, instanceConfig, m,
                     getAttributeFromObject(instanceConfig, PathOf(SubSeq(field, m[1] + 1, m[2]))))
\* templates.ts 66-104
ConfigLoop(field, instanceConfig) == ConfigOn(field, instanceConfig, DollarMatch(field, FALSE))

RECURSIVE InstanceLoop(_, _)
\* templates.ts 114-139; '${' + match[0] + '}' is never the field, so a value that is
\* found is always spliced in
InstanceValue(field, additionalConfig, m, value) ==
    IF value.t # "undef"
        THEN InstanceLoop(Replace(field, m[1], m[3], String(value)), additionalConfig)
    ELSE IF field[m[2] + 1] = ":-"
        THEN IF IsWhole(field, m[1], m[3]) THEN Return(Coerce(DefaultOf(field, m)))
             ELSE InstanceLoop(Replace(field, m[1], m[3], DefaultOf(field, m)), additionalConfig)
    ELSE InstanceLoop(Replace(field, m[1], m[3], <<>>), additionalConfig)
InstanceOn(field, additionalConfig, m) ==
    IF m = <<>> THEN Left(field)
    ELSE IF additionalConfig.t = "undef" THEN Return(Throw)
    ELSE InstanceValue(field, additionalConfig, m,
                       IF m[2] = m[1] + 1 THEN Get(additionalConfig, field[m[2]]) ELSE Undef)
\* templates.ts 106-140
InstanceLoop(field, additionalConfig) == InstanceOn(field, additionalConfig, DollarMatch(field, TRUE))

\* templates.ts 19-143: the three loops one after the other, each until it finds no
\* match; a return statement in a loop ends the call
AfterConfig(second, additionalConfig) ==
    IF second.returned THEN second.v ELSE InstanceLoop(second.v.v, additionalConfig).v
AfterCurly(first, instanceConfig, additionalConfig) ==
    IF first.returned THEN first.v
    ELSE AfterConfig(ConfigLoop(first.v.v, instanceConfig), additionalConfig)
parseField(field, instanceConfig, additionalConfig) ==
    AfterCurly(CurlyLoop(field, instanceConfig, additionalConfig), instanceConfig, additionalConfig)

Failed(x) == x.t \in {"throw", "hang"}
RECURSIVE Walk(_, _, _)
Walk(obj, instanceConfig, additionalConfig) ==
    CASE obj.t = "str" -> parseField(obj.v, instanceConfig, additionalConfig)
      [] obj.t = "arr" ->
            JArr([i \in 1..Len(obj.v) |-> Walk(obj.v[i], instanceConfig, additionalConfig)])
      [] obj.t = "obj" ->
            JObj([k \in DOMAIN obj.v |-> Walk(obj.v[k], instanceConfig, additionalConfig)])
      [] OTHER -> obj
RECURSIVE AnyFailed(_)
AnyFailed(x) ==
    CASE x.t = "arr" -> \E i \in 1..Len(x.v) : AnyFailed(x.v[i])
      [] x.t = "obj" -> \E k \in DOMAIN x.v : AnyFailed(x.v[k])
      [] OTHER -> Failed(x)

\* templates.ts 145-164; an exception in a leaf ends the walk
walkTheConfig(obj, instanceConfig, additionalConfig) ==
    LET result == Walk(obj, instanceConfig, additionalConfig)
    IN  IF AnyFailed(result) THEN Throw ELSE result

\* the labels of a service: every owner-control key is absent or 'true' or 'false';
\* form is the shape the labels have in the file, a map or a list of 'k=v'
OwnerKeys ==
    {"iobEnabled", "iobStopOnUnload", "iobAutoImageUpdate", "iobMonitoringEnabled",
     "iobWaitForReady"}
Services == [form : {"map", "list"}, labels : [OwnerKeys -> {"absent", "true", "false"}]]
NoService == [form |-> "map", labels |-> [k \in OwnerKeys |-> "absent"]]

\* a set of keys in the order Object.entries gives them
RECURSIVE InOrder(_)
InOrder(keys) ==
    IF keys = {} THEN <<>>
    ELSE LET k == CHOOSE x \in keys : TRUE IN <<k>> \o InOrder(keys \ {k})

\* the service as the compose file states it, with the labels as a map or as a list
LabelsOf(form, entries) ==
    IF DOMAIN entries = {} THEN Undef
    ELSE IF form = "map" THEN JObj(entries)
    ELSE LET keys == InOrder(DOMAIN entries)
         IN  JArr([i \in 1..Len(keys) |-> JStr(<<keys[i], "=">> \o entries[keys[i]].v)])
ServiceOf(s) ==
    Put(JObj([image |-> JStr(<<"image", ":", "latest">>)]), "labels",
        LabelsOf(s.form, [k \in {j \in OwnerKeys : s.labels[j] # "absent"} |-> JStr(<<s.labels[k]>>)]))

\* s.indexOf(tok), 0 for -1
IndexOf(s, tok) ==
    IF Includes(s, tok)
        THEN CHOOSE i \in 1..Len(s) : s[i] = tok /\ \A j \in 1..(i - 1) : s[j] # tok
        ELSE 0
RECURSIVE Trim(_)
Trim(s) ==
    IF s # <<>> /\ s[1] = " " THEN Trim(Tail(s))
    ELSE IF s # <<>> /\ s[Len(s)] = " " THEN Trim(SubSeq(s, 1, Len(s) - 1))
    ELSE s
\* the property name a string of one token is
KeyOf(s) == IF Len(s) = 1 THEN s[1] ELSE "(composite)"

\* the entries of a list of 'k=v' as a map, a later entry replacing an earlier one
EntriesOfList(list) ==
    LET key(l) == IF IndexOf(l, "=") = 0 THEN l ELSE SubSeq(l, 1, IndexOf(l, "=") - 1)
        val(l) == IF IndexOf(l, "=") = 0 THEN <<>> ELSE SubSeq(l, IndexOf(l, "=") + 1, Len(l))
        last(k) == CHOOSE i \in 1..Len(list) :
                       /\ KeyOf(key(list[i].v)) = k
                       /\ \A j \in (i + 1)..Len(list) : KeyOf(key(list[j].v)) # k
    IN  [k \in {KeyOf(key(list[i].v)) : i \in 1..Len(list)} |-> JStr(val(list[last(k)].v))]

\* normalizeStringMap (parseDockerCompose.ts 208-230)
normalizeStringMap(input) ==
    IF Falsy(input) THEN Undef
    ELSE IF input.t = "arr" THEN JObj(EntriesOfList(input.v))
    ELSE JObj([k \in Keys(input) |-> JStr(String(input.v[k]))])

RECURSIVE cleanUndefined(_)
\* cleanUndefined (parseDockerCompose.ts 381-420)
cleanUndefined(obj) ==
    IF obj.t = "arr" THEN
        LET cleaned == [i \in 1..Len(obj.v) |->
                           IF obj.v[i].t \in {"arr", "obj"} THEN cleanUndefined(obj.v[i]) ELSE obj.v[i]]
            res == SelectSeq(cleaned, LAMBDA item : item.t # "undef")
        IN  IF Len(res) = 0 THEN Undef ELSE JArr(res)
    ELSE IF obj.t = "obj" THEN
        LET cleaned == [k \in DOMAIN obj.v |-> cleanUndefined(obj.v[k])]
            keep == {k \in DOMAIN obj.v : cleaned[k].t # "undef"}
        IN  IF keep = {} THEN Undef ELSE JObj([k \in keep |-> cleaned[k]])
    ELSE obj

\* composeFromYaml (parseDockerCompose.ts 426-560) for one service: the labels stay a
\* list when they are one (319-329) and become a map of strings otherwise, the volumes
\* in their short form are passed on
composeFromYaml(svc) ==
    LET labels == Get(svc, "labels")
    IN  cleanUndefined(JObj([k \in Keys(svc) |->
            IF k = "labels"
                THEN IF Falsy(labels) THEN Undef
                     ELSE IF labels.t = "arr" THEN labels ELSE normalizeStringMap(labels)
                ELSE svc.v[k]]))

\* x && typeof x === 'object' && !Array.isArray(x)
isObject(x) == x.t = "obj"
\* x && typeof x === 'object'
IsObjectOrArray(x) == x.t \in {"obj", "arr"}
\* Object.entries(x) as a map: the keys of an object, the indices '0', '1', ... of an array
IndexNames == <<"0", "1", "2">>
EntriesOf(x) ==
    IF x.t = "arr" THEN [k \in {IndexNames[i] : i \in 1..Len(x.v)} |->
                            x.v[CHOOSE i \in 1..Len(x.v) : IndexNames[i] = k]]
    ELSE x.v

\* composeFromYaml (parseDockerCompose.ts 426-570) for a whole document that is already
\* loaded: the checks of the document, of `services` and of each service, and the
\* manifest of the normalized services
ComposeTop(raw) ==
    IF ~IsObjectOrArray(raw) THEN Throw
    ELSE IF ~IsObjectOrArray(Get(raw, "services")) THEN Throw
    ELSE IF \E name \in DOMAIN EntriesOf(Get(raw, "services")) :
                ~isObject(EntriesOf(Get(raw, "services"))[name]) THEN Throw
    ELSE cleanUndefined(JObj(
             [version |-> IF Get(raw, "version").t = "undef" THEN JStr(<<"3.9">>)
                          ELSE Get(raw, "version"),
              services |-> JObj([name \in DOMAIN EntriesOf(Get(raw, "services")) |->
                                    composeFromYaml(EntriesOf(Get(raw, "services"))[name])])]))

\* normalizeLabels (parseDockerCompose.ts 863-884): the entries 'k=v' of a list and the
\* entries of a map both become a map from key to string
normalizeLabels(labels) == normalizeStringMap(labels)

\* src.startsWith('/') || src.startsWith('./') || src.startsWith('../')
IsPath(src) == src # <<>> /\ src[1] \in {"/", "./", "../", "/var/lib/docker/volumes/"}

\* mapVolumes (parseDockerCompose.ts 663-728): the mounts of the short forms
\* 'src:dst[:mode]' and of the long forms that are no tmpfs
mapVolumes(vols) ==
    IF vols.t # "arr" THEN <<>>
    ELSE LET segs(v) == Split(v.v, ":")
             mount(v) ==
                 IF v.t = "str"
                     THEN JObj([type |-> JStr(IF IsPath(segs(v)[1]) THEN <<"bind">> ELSE <<"volume">>),
                                source |-> JStr(segs(v)[1]),
                                target |-> JStr(segs(v)[2]),
                                readOnly |-> IF Len(segs(v)) >= 3 /\ Includes(segs(v)[3], "ro")
                                                 THEN JBool(TRUE) ELSE Undef])
                     ELSE JObj([source |-> IF Get(v, "source").t = "undef" THEN JStr(<<>>)
                                           ELSE Get(v, "source"),
                                target |-> Get(v, "target"),
                                type |-> Get(v, "type"),
                                readOnly |-> Get(v, "read_only")])
             used == SelectSeq(vols.v, LAMBDA v :
                         IF v.t = "str" THEN Len(segs(v)) >= 2
                         ELSE ~IsStr(Get(v, "type"), <<"tmpfs">>))
         IN  [i \in 1..Len(used) |-> mount(used[i])]

\* the label keys that are settings of the owner and no labels of the container
ReservedButCopy ==
    {"iobEnabled", "iobStopOnUnload", "iobAutoImageUpdate", "iobMonitoringEnabled",
     "iobBackup", "iobWaitForReady"}
\* parseDockerCompose.ts 982-988
ReservedLabels ==
    {"iobEnabled", "iobStopOnUnload", "iobAutoImageUpdate", "iobMonitoringEnabled",
     "iobBackup", "iobCopyVolumes", "iobWaitForReady"}

\* m.source === true ? 'true' : m.source
SourceOf(m) == IF IsTrue(Get(m, "source")) THEN JStr(<<"true">>) ELSE Get(m, "source")

\* parseDockerCompose.ts 989-997: the mounts named in the label iobBackup
MarkBackup(mounts, labels) ==
    LET label == Get(labels, "iobBackup")
        names == IF label.t = "str"
                     THEN {Trim(Split(label.v, ",")[i]) : i \in 1..Len(Split(label.v, ","))}
                     ELSE {}
    IN  [i \in 1..Len(mounts) |->
            IF ~Falsy(SourceOf(mounts[i])) /\ SourceOf(mounts[i]).v \in names
                THEN Put(mounts[i], "iobBackup", JBool(TRUE)) ELSE mounts[i]]

\* parseDockerCompose.ts 998-1004: the pairs 'source=>target' of the label iobCopyVolumes
CopyInstructions(labels) ==
    LET label == Get(labels, "iobCopyVolumes")
        items == IF label.t = "str" THEN Split(label.v, ",") ELSE <<>>
        parts(i) == Split(Trim(items[i]), "=>")
    IN  [i \in 1..Len(items) |->
            [source |-> Trim(parts(i)[1]),
             target |-> IF Len(parts(i)) >= 2 /\ Trim(parts(i)[2]) # <<>>
                            THEN Trim(parts(i)[2]) ELSE Trim(parts(i)[1])]]

\* a converter that would write the field the controller reads
CopyFieldRead == "iobAutoCopyFrom"
\* parseDockerCompose.ts 1010: the field the converter writes the source path to
CopyField == "iobCopyVolume"

\* parseDockerCompose.ts 1005-1013: the first pair whose target is the mount's source
MarkCopy(mounts, labels) ==
    LET pairs == CopyInstructions(labels)
        hits(m) == {i \in 1..Len(pairs) : SourceOf(m) = JStr(pairs[i].target)}
        first(m) == CHOOSE i \in hits(m) : \A j \in hits(m) : i <= j
    IN  [i \in 1..Len(mounts) |->
            IF Get(labels, "iobCopyVolumes").t = "str" /\ hits(mounts[i]) # {}
                THEN Put(mounts[i], CopyField, JStr(pairs[first(mounts[i])].source))
                ELSE mounts[i]]

\* composeServiceToContainerConfig (parseDockerCompose.ts 947-1085): the owner-control
\* flags, the name, the image, the user, the environment, the labels and the mounts
composeServiceToContainerConfig(serviceName, svc) ==
    LET labels == normalizeLabels(Get(svc, "labels"))
        Label(k) == GetAny(labels, k)
        mounts == MarkCopy(MarkBackup(mapVolumes(Get(svc, "volumes")), labels), labels)
        labelsWithoutIobSettings ==
            IF labels.t = "obj" THEN JObj([k \in Keys(labels) \ ReservedLabels |-> labels.v[k]])
            ELSE JObj(<<>>)
    IN  cleanUndefined(JObj(
            [iobEnabled |-> JBool(~IsStr(Label("iobEnabled"), <<"false">>)),
             iobStopOnUnload |-> JBool(IsStr(Label("iobStopOnUnload"), <<"true">>)),
             iobAutoImageUpdate |-> JBool(IsStr(Label("iobAutoImageUpdate"), <<"true">>)),
             iobMonitoringEnabled |-> JBool(IsStr(Label("iobMonitoringEnabled"), <<"true">>)),
             iobWaitForReady |-> IF IsStr(Label("iobWaitForReady"), <<"true">>) THEN JBool(TRUE)
                                 ELSE IF IsStr(Label("iobWaitForReady"), <<"false">>) THEN JBool(FALSE)
                                 ELSE Undef,
             name |-> IF Falsy(Get(svc, "container_name")) THEN JStr(serviceName)
                      ELSE Get(svc, "container_name"),
             image |-> IF Falsy(Get(svc, "image")) THEN JStr(<<"image", ":", "latest">>)
                       ELSE Get(svc, "image"),
             user |-> Get(svc, "user"),
             environment |-> Get(svc, "environment"),
             labels |-> labelsWithoutIobSettings,
             mounts |-> IF Len(mounts) > 0 THEN JArr(mounts) ELSE Undef,
             security |-> JObj([privileged |-> Get(svc, "privileged")]),
             readOnly |-> Get(svc, "read_only")]))

\* part_000 156-176: init() starts the manager unless some config waits for
\* instanceIsReady(); the manager is created when some config is enabled, and its
\* constructor starts init() and with it the first pass
\* an init() that would not look at iobWaitForReady
WaitsNever(cfgs) == FALSE
\* plugin is "started" when init() has started the manager, "ready" when
\* instanceIsReady() has, and "waiting" until then
WaitsForReady(cfgs) == \E i \in 1..Len(cfgs) : ~Falsy(Get(cfgs[i], "iobWaitForReady"))
AnyEnabled(cfgs) == \E i \in 1..Len(cfgs) : ~IsFalse(Get(cfgs[i], "iobEnabled"))
StartOf(cfgs) == IF ~WaitsForReady(cfgs) /\ AnyEnabled(cfgs) THEN "started" ELSE "waiting"
StartPass == [IdlePass EXCEPT !.pc = "list"]
\* the last call of add, modify or remove; timer (the timer was armed when the call
\* came) and failed (the runtime did not do what the call asked for) are history
IdleCall ==
    [op |-> "none", name |-> <<>>, to |-> <<>>, pc |-> "idle", thrown |-> FALSE,
     timer |-> FALSE, failed |-> FALSE]
\* seen and pos are history: the name the tick read at each position of the list, and
\* the position each start of the tick was issued for
IdleMon ==
    [pc |-> "idle", c |-> 0, containers |-> {}, started |-> <<>>, failed |-> {},
     seen |-> <<>>, pos |-> <<>>]
IdleDes == [pc |-> "idle", c |-> 0]

\* containerList(): the ContainerInfo of every container of the runtime
ContainerList == {[names |-> k.name, id |-> k.id, status |-> k.status] : k \in rtContainers}
\* list.find(it => it.names === name)
FindByName(list, name) ==
    IF \E it \in list : it.names = name
        THEN CHOOSE it \in list : it.names = name
        ELSE NoInfo
\* list.find(it => it.names === x || it.id === x) of containerStart/Stop/Remove
FindByRef(list, ref) ==
    IF \E it \in list : it.names = ref \/ it.id = ref
        THEN CHOOSE it \in list : it.names = ref \/ it.id = ref
        ELSE NoInfo
\* the two readings of "up": only running, or running and restarting (the code's)
UpOnlyRunning(status) == status = "running"
Up(status) == status \in {"running", "restarting"}

SetStatus(id, st) ==
    {IF k.id = id THEN [k EXCEPT !.status = st] ELSE k : k \in rtContainers}
WithoutId(id) == {k \in rtContainers : k.id # id}
ImageRef(container) == Get(container, "image").v
ImagePresent(images, ref) == \E im \in images : im.ref = ref
\* the id of the image the runtime holds under a reference (0: none)
ImageId(ref) == IF ImagePresent(rtImages, ref) THEN (CHOOSE im \in rtImages : im.ref = ref).id ELSE 0
NewContainer(config, st) ==
    [name |-> Get(config, "name").v, id |-> ContainerId(nextId), status |-> st,
     insp |-> InspectOf(config, driver), image |-> ImageId(ImageRef(config))]

Fault(b) == [b EXCEPT !.faults = @ - 1]
Event(b) == [b EXCEPT !.events = @ - 1]
MayHappen == budget.events > 0
MayFail == budget.faults > 0


----------------------------------------------------------------------------
(* #checkOwnContainers: one reconciliation pass *)

Own(c) == ownContainers[c]
SetOwn(c, cfg) == [ownContainers EXCEPT ![c] = cfg]
Name(cfg) == Get(cfg, "name").v
Mounts(cfg) == IF Get(cfg, "mounts").t = "arr" THEN Get(cfg, "mounts").v ELSE <<>>
Monitored(cfg) == ~Falsy(Get(cfg, "iobMonitoringEnabled"))

\* a loop that would go on with the container before
PreviousContainer(p) == [p EXCEPT !.pc = "head", !.c = IF @ > 1 THEN @ - 1 ELSE @]
\* the end of the loop body for one container: the locals of the body are dropped
NextContainer(p) ==
    [p EXCEPT !.pc = "head", !.c = @ + 1, !.m = 0, !.volumes = {},
              !.containerInfo = NoInfo, !.image = FALSE, !.rc = NoInfo, !.desired = Undef]
\* the same, through the catch of the body or a `continue` after a failure
FailContainer(p) == [NextContainer(p) EXCEPT !.errors = TRUE]
\* anyStartedOrRunning ||= !!container.iobMonitoringEnabled, then the next container
DoneContainer(p, cfg) ==
    [NextContainer(p) EXCEPT !.anyStartedOrRunning = @ \/ Monitored(cfg)]

Issue(op, target, ok) ==
    /\ lastOp' = [Op("pass", op, target) EXCEPT !.flags = IF ok THEN {"ok"} ELSE {}]
    /\ hist' = Append(hist, [op |-> op, ok |-> ok])
Quiet == lastOp' = NoOp /\ hist' = hist

\* lines 562-568: the tag, the iobroker label and the prefixed name
HeadNormalize(cfg) ==
    LET img == Get(cfg, "image")
        c1 == IF ~Includes(img.v, ":") THEN Put(cfg, "image", JStr(img.v \o <<":", "latest">>)) ELSE cfg
        lb == Get(c1, "labels")
        c2 == IF ~IsStr(GetAny(lb, "iobroker"), Namespace)
                  THEN Put(c1, "labels", Put(IF lb.t = "obj" THEN lb ELSE JObj(<<>>), "iobroker", JStr(Namespace)))
                  ELSE c1
    IN  c2

\* lines 572-589: whether the network mode names a custom network, and its prefixed name
CustomNetwork(nm) ==
    /\ ~Falsy(nm)
    /\ ~(IF nm.t = "str" THEN nm.v \in {<<"container">>, <<"host">>, <<"bridge">>, <<"none">>}
          ELSE FALSE)
NetworkName(nm) ==
    LET n1 == IF IsTrue(nm) \/ IsStr(nm, <<"true">>) THEN Prefix ELSE nm.v
    IN  IF n1 # <<"iobroker">> /\ n1 # Prefix /\ ~StartsWith(n1, Prefix \o Sep)
            THEN Prefix \o Sep \o n1 ELSE n1

\* lines 660-698: the lookups in the snapshots and the choice of what to do next
Decide(p, cfg) ==
    LET info == FindByName(p.status, Name(cfg))
        img == ImagePresent(p.images, ImageRef(cfg))
    IN  [p EXCEPT !.containerInfo = info, !.image = img,
                  !.pc = IF ~Falsy(Get(cfg, "iobAutoImageUpdate")) THEN "imageUpdate"
                         ELSE IF ~img THEN "pull"
                         ELSE IF info # NoInfo THEN "inspect" ELSE "run"]

HasVolumeMount(cfg) == \E i \in 1..Len(Mounts(cfg)) : IsStr(Get(Mounts(cfg)[i], "type"), <<"volume">>)
\* line 604-606: the volume list is read when some mount is a volume
ToVolumes(p, cfg) ==
    IF HasVolumeMount(cfg)
        THEN [p EXCEPT !.pc = "mount", !.m = 1, !.volumes = rtVolumes]
        ELSE Decide(p, cfg)
\* a pass starts the body of a container with nothing issued and nothing observed
EnterBody(p) ==
    [p EXCEPT !.processed = @ \cup {p.c}, !.seen = "none", !.diff = "none", !.newImage = "none"]

\* containerList and imageList (part_001 1256-1258, 886-888): dockerode lets a failed
\* request leave the call (a failing list is considered for dockerode only)
ListThrows(ok) == ~ok /\ driver = "api"

\* lines 550-555: the promise for an empty list, else the two lists; an exception of a
\* list leaves #checkOwnContainers
PassList ==
    /\ pass.pc = "list"
    /\ \E ok \in {TRUE, FALSE} :
         /\ ~ok => MayFail /\ Len(ownContainers) > 0 /\ driver = "api"
         /\ budget' = IF ok THEN budget ELSE Fault(budget)
         /\ IF Len(ownContainers) = 0
                THEN /\ pass' = [IdlePass EXCEPT !.result = "done"]
                     /\ waitAllChecked' = TRUE
                ELSE /\ pass' = IF ListThrows(ok)
                                    THEN [IdlePass EXCEPT !.result = "aborted"]
                                    ELSE [IdlePass EXCEPT !.pc = "head", !.c = 1, !.idem = pass.idem,
                                                          !.status = ContainerList,
                                                          !.images = rtImages]
                     /\ waitAllChecked' = waitAllChecked
    /\ lastOp' = NoOp /\ hist' = <<>>
    /\ UNCHANGED <<driver, declared, ownContainers, monitoringInterval, ownContainersStats,
                   destroyed, mon, des, rtContainers, rtNetworks, rtVolumes, rtImages,
                   nextId, seeded>>
    /\ turn' = ~turn
    /\ UNCHANGED <<pending, call, plugin>>
    /\ UNCHANGED <<compose, calc>>

\* the head of the loop body up to the network list (lines 560-594)
PassHead ==
    /\ pass.pc = "head"
    /\ pass.c <= Len(ownContainers)
    /\ LET container == Own(pass.c)
           p0 == EnterBody(pass)
       IN  IF IsFalse(Get(container, "iobEnabled"))
               THEN /\ pass' = NextContainer(p0)
                    /\ ownContainers' = ownContainers
           ELSE LET c2 == HeadNormalize(container)
                    nm == modifyContainerName(Get(c2, "name"))
                IN  IF nm = Throw
                        \* the exception leaves #checkOwnContainers: the pass ends here
                        THEN /\ pass' = [IdlePass EXCEPT !.result = "aborted",
                                                         !.processed = p0.processed]
                             /\ ownContainers' = SetOwn(pass.c, c2)
                    ELSE LET c3 == Put(c2, "name", nm)
                             net == Get(c3, "networkMode")
                             c4 == IF CustomNetwork(net)
                                       THEN Put(c3, "networkMode", JStr(NetworkName(net))) ELSE c3
                             nn == Get(c4, "networkMode").v
                         IN  /\ ownContainers' = SetOwn(pass.c, c4)
                             /\ pass' =
                                  IF CustomNetwork(net) /\ nn \notin p0.networkChecked
                                      THEN IF nn \in rtNetworks
                                               THEN ToVolumes([p0 EXCEPT !.networkChecked = @ \cup {nn}], c4)
                                               ELSE [p0 EXCEPT !.pc = "netCreate"]
                                      ELSE ToVolumes(p0, c4)
    /\ lastOp' = NoOp /\ hist' = <<>>
    /\ UNCHANGED <<driver, declared, monitoringInterval, ownContainersStats, waitAllChecked,
                   destroyed, mon, des, rtContainers, rtNetworks, rtVolumes, rtImages,
                   nextId, seeded, budget>>
    /\ turn' = ~turn
    /\ UNCHANGED <<pending, call, plugin>>
    /\ UNCHANGED <<compose, calc>>

\* lines 722-725: the timer and the promise
PassFinish ==
    /\ pass.pc = "head"
    /\ pass.c > Len(ownContainers)
    /\ monitoringInterval' = (monitoringInterval \/ pass.anyStartedOrRunning)
    /\ waitAllChecked' = TRUE
    /\ pass' = [IdlePass EXCEPT !.result = "done", !.processed = pass.processed,
                                !.idem = ~pass.errors]
    /\ lastOp' = NoOp
    /\ hist' = <<>>
    /\ UNCHANGED <<driver, declared, ownContainers, ownContainersStats, destroyed, mon, des,
                   rtContainers, rtNetworks, rtVolumes, rtImages, nextId, seeded, budget>>
    /\ turn' = ~turn
    /\ UNCHANGED <<pending, call, plugin>>
    /\ UNCHANGED <<compose, calc>>

\* networkCreate (part_001 1678-1697): created and found afterwards, or an exception
PassNetworkCreate ==
    /\ pass.pc = "netCreate"
    /\ LET container == Own(pass.c)
           nn == Get(container, "networkMode").v
       IN  \E ok \in {TRUE, FALSE} :
             /\ ok \/ MayFail
             /\ rtNetworks' = IF ok THEN rtNetworks \cup {nn} ELSE rtNetworks
             /\ budget' = IF ok THEN budget ELSE Fault(budget)
             /\ Issue("networkCreate", nn, ok)
             /\ pass' = IF ok
                   THEN ToVolumes([pass EXCEPT !.networkChecked = @ \cup {nn},
                                               !.ops = @ \cup {"networkCreate"}], container)
                   ELSE FailContainer([pass EXCEPT !.ops = @ \cup {"networkCreate"}])
    /\ UNCHANGED <<driver, declared, ownContainers, monitoringInterval, ownContainersStats,
                   waitAllChecked, destroyed, mon, des, rtContainers, rtVolumes, rtImages,
                   nextId, seeded>>
    /\ turn' = ~turn
    /\ UNCHANGED <<pending, call, plugin>>
    /\ UNCHANGED <<compose, calc>>

----------------------------------------------------------------------------
(* The volumes of a container: lines 603-658 *)

AdapterDir == <<"/adapter/">>
\* !from.startsWith('/') || from.match(/^[a-zA-Z]:/)
RelativePath(s) == s[1] \notin {"/", "/adapter/"}
\* the comma separated list of the iob_backup label contains the name
ListHas(label, name) ==
    \E i \in 1..Len(label) :
        /\ i + Len(name) - 1 <= Len(label)
        /\ SubSeq(label, i, i + Len(name) - 1) = name
        /\ (i = 1 \/ label[i - 1] = ",")
        /\ (i + Len(name) - 1 = Len(label) \/ label[i + Len(name)] = ",")

\* a loop that would prefix the source of a mount in every pass
VolumeNameAgain(src) == Prefix \o Sep \o src.v
\* lines 609-616: the prefixed name of the volume of a mount
VolumeName(src) ==
    LET s1 == IF IsTrue(src) \/ IsStr(src, <<"true">>) THEN Prefix ELSE src.v
    IN  IF s1 # Prefix /\ ~StartsWith(s1, Prefix \o Sep) THEN Prefix \o Sep \o s1 ELSE s1

\* lines 609-638: what the loop writes into the mount
MountNormalize(mount) ==
    LET m1 == Put(mount, "source", JStr(VolumeName(Get(mount, "source"))))
        from == Get(m1, "iobAutoCopyFrom")
    IN  IF ~Falsy(from) /\ RelativePath(from.v)
            THEN Put(m1, "iobAutoCopyFrom", JStr(AdapterDir \o from.v)) ELSE m1

\* lines 617-630: the iob_backup label
BackupLabel(cfg, mount) ==
    LET lb == Get(cfg, "labels")
        cur == Get(lb, "iob_backup")
        src == Get(mount, "source").v
    IN  IF Falsy(Get(mount, "iobBackup")) THEN cfg
        ELSE IF Falsy(cur) THEN Put(cfg, "labels", Put(lb, "iob_backup", JStr(src)))
        ELSE IF ~ListHas(cur.v, src)
            THEN Put(cfg, "labels", Put(lb, "iob_backup", JStr(cur.v \o <<",">> \o src)))
        ELSE cfg

SetMount(cfg, i, mount) == Put(cfg, "mounts", JArr([Mounts(cfg) EXCEPT ![i] = mount]))
IsVolumeMount(mount) == IsStr(Get(mount, "type"), <<"volume">>) /\ ~Falsy(Get(mount, "source"))
CopyWanted(mount) == ~Falsy(Get(mount, "iobAutoCopyFrom"))
\* a copy on every pass, against the copy that the force flag asks for
CopyAlways(mount) == ~Falsy(Get(mount, "iobAutoCopyFrom"))
CopyForced(mount) == ~Falsy(Get(mount, "iobAutoCopyFromForce")) /\ CopyWanted(mount)

\* the next mount of the loop, or the rest of the body after the last one
NextMount(p, cfg) ==
    IF p.m >= Len(Mounts(cfg)) THEN Decide([p EXCEPT !.m = 0], cfg) ELSE [p EXCEPT !.pc = "mount", !.m = @ + 1]

\* one iteration of the loop over the mounts, up to the runtime call it makes
PassMount ==
    /\ pass.pc = "mount"
    /\ LET container == Own(pass.c)
           mount == Mounts(container)[pass.m]
       IN  IF ~IsVolumeMount(mount)
               THEN /\ pass' = NextMount(pass, container)
                    /\ ownContainers' = ownContainers
           ELSE LET m1 == MountNormalize(mount)
                    c1 == BackupLabel(SetMount(container, pass.m, m1), m1)
                    exists == Get(m1, "source").v \in pass.volumes
                IN  /\ ownContainers' = SetOwn(pass.c, c1)
                    /\ pass' = IF ~exists THEN [pass EXCEPT !.pc = "volCreate"]
                               ELSE IF CopyForced(m1) THEN [pass EXCEPT !.pc = "copy"]
                               ELSE NextMount(pass, c1)
    /\ Quiet
    /\ UNCHANGED <<driver, declared, monitoringInterval, ownContainersStats, waitAllChecked,
                   destroyed, mon, des, rtContainers, rtNetworks, rtVolumes, rtImages,
                   nextId, seeded, budget>>
    /\ turn' = ~turn
    /\ UNCHANGED <<pending, call, plugin>>
    /\ UNCHANGED <<compose, calc>>

\* the outcomes of volumeCreate (part_001 1820-1855): the volume is there afterwards and
\* the result is clean ("ok") or carries stderr ("stderr", child process only), or the
\* call throws ("throw")
VolumeCreateOutcomes == IF driver = "cli" THEN {"ok", "stderr", "throw"} ELSE {"ok", "throw"}

\* a volume creation whose failure would go unnoticed
CreateNeverThrows(out) == FALSE

\* lines 1849-1852 of part_001: the volume is looked up after the command, and the call
\* throws when it is not there
CreateThrows(out) == out = "throw"

PassVolumeCreate ==
    /\ pass.pc = "volCreate"
    /\ LET container == Own(pass.c)
           mount == Mounts(container)[pass.m]
           vol == Get(mount, "source").v
       IN  \E out \in VolumeCreateOutcomes :
             /\ out = "ok" \/ MayFail
             /\ budget' = IF out = "ok" THEN budget ELSE Fault(budget)
             /\ rtVolumes' = IF out = "throw" THEN rtVolumes ELSE rtVolumes \cup {vol}
             /\ Issue("volumeCreate", vol, out = "ok")
             /\ LET p1 == [pass EXCEPT !.ops = @ \cup {"volumeCreate"},
                                       !.createdVols = IF out = "throw" THEN @ ELSE @ \cup {vol}]
                IN  pass' = CASE CreateThrows(out) -> FailContainer(p1)
                              [] out = "stderr" -> [NextMount(p1, container) EXCEPT !.errors = TRUE]
                              [] OTHER -> IF CopyWanted(mount) THEN [p1 EXCEPT !.pc = "copy"]
                                          ELSE NextMount(p1, container)
    /\ UNCHANGED <<driver, declared, ownContainers, monitoringInterval, ownContainersStats,
                   waitAllChecked, destroyed, mon, des, rtContainers, rtNetworks, rtImages,
                   nextId, seeded>>
    /\ turn' = ~turn
    /\ UNCHANGED <<pending, call, plugin>>
    /\ UNCHANGED <<compose, calc>>

\* volumeCopyTo (part_001 1745-1811): the data is written ("ok"), the call returns an
\* error result the pass does not look at ("stderr"), or it throws ("throw")
PassVolumeCopy ==
    /\ pass.pc = "copy"
    /\ LET container == Own(pass.c)
           mount == Mounts(container)[pass.m]
           vol == Get(mount, "source").v
       IN  \E out \in {"ok", "stderr", "throw"} :
             /\ out = "ok" \/ MayFail
             /\ budget' = IF out = "ok" THEN budget ELSE Fault(budget)
             /\ seeded' = IF out = "ok"
                   THEN seeded \cup {[volume |-> vol,
                                      created |-> vol \in pass.createdVols,
                                      existed |-> vol \in pass.volumes,
                                      force |-> ~Falsy(Get(mount, "iobAutoCopyFromForce")),
                                      from |-> ~Falsy(Get(mount, "iobAutoCopyFrom"))]}
                   ELSE seeded
             /\ Issue("volumeCopyTo", vol, out = "ok")
             /\ LET p1 == [pass EXCEPT !.ops = @ \cup {"volumeCopyTo"}]
                IN  pass' = CASE out = "throw" -> FailContainer(p1)
                              [] out = "stderr" -> [NextMount(p1, container) EXCEPT !.errors = TRUE]
                              [] OTHER -> NextMount(p1, container)
    /\ UNCHANGED <<driver, declared, ownContainers, monitoringInterval, ownContainersStats,
                   waitAllChecked, destroyed, mon, des, rtContainers, rtNetworks, rtVolumes,
                   rtImages, nextId>>
    /\ turn' = ~turn
    /\ UNCHANGED <<pending, call, plugin>>
    /\ UNCHANGED <<compose, calc>>

----------------------------------------------------------------------------
(* The image of a container: lines 660-696 *)

WithImage(ref, id) == {im \in rtImages : im.ref # ref} \cup {[ref |-> ref, id |-> id]}
\* what follows once the image is there (lines 698-702)
EnsureOrRun(p) == [p EXCEPT !.pc = IF p.containerInfo # NoInfo THEN "inspect" ELSE "run"]

\* an update that would report every pulled image as new
ChangedAlways(out) == out # "throw"
\* line 290 of part_001 and line 665: imageUpdate returns the image only when its id
\* has changed (or when there was none), and the pass looks at that
Changed(out) == out = "new"

\* imageUpdate(image, true) (part_001 270-291): the pull fails ("throw"), brings the
\* image the host has ("same") or brings another one ("new")
PassImageUpdate ==
    /\ pass.pc = "imageUpdate"
    /\ LET ref == ImageRef(Own(pass.c))
           had == ImagePresent(rtImages, ref)
       IN  \E out \in {"same", "new", "throw"} :
             /\ out = "throw" => MayFail
             /\ out = "same" => had
             /\ out = "new" => (~had \/ MayHappen)
             /\ budget' = CASE out = "throw" -> Fault(budget)
                            [] out = "new" /\ had -> Event(budget)
                            [] OTHER -> budget
             /\ rtImages' = IF out = "new" THEN WithImage(ref, ImageId(ref) + 1) ELSE rtImages
             /\ Issue("imagePull", ref, out # "throw")
             /\ LET p1 == [pass EXCEPT !.ops = @ \cup {"imagePull"},
                                        !.newImage = CASE out = "new" -> "image"
                                                       [] out = "same" -> "null"
                                                       [] OTHER -> "none"]
                IN  pass' = CASE out = "throw" -> FailContainer(p1)
                              [] Changed(out) ->
                                   IF p1.containerInfo # NoInfo
                                       THEN [p1 EXCEPT !.pc = "imageRemove", !.image = TRUE]
                                       ELSE [p1 EXCEPT !.pc = "run", !.image = TRUE]
                              [] OTHER -> IF p1.image THEN EnsureOrRun(p1) ELSE [p1 EXCEPT !.pc = "pull"]
    /\ UNCHANGED <<driver, declared, ownContainers, monitoringInterval, ownContainersStats,
                   waitAllChecked, destroyed, mon, des, rtContainers, rtNetworks, rtVolumes,
                   nextId, seeded>>
    /\ turn' = ~turn
    /\ UNCHANGED <<pending, call, plugin>>
    /\ UNCHANGED <<compose, calc>>

\* containerRemove(containerInfo.id) (part_001 1220-1249) after an image update: the
\* result is not looked at
PassImageRemove ==
    /\ pass.pc = "imageRemove"
    /\ LET info == FindByRef(ContainerList, pass.containerInfo.id)
       IN  \E ok \in {TRUE, FALSE} :
             /\ ok => info # NoInfo
             /\ (~ok /\ info # NoInfo) => MayFail
             /\ budget' = IF ~ok /\ info # NoInfo THEN Fault(budget) ELSE budget
             /\ rtContainers' = IF ok THEN WithoutId(info.id) ELSE rtContainers
             /\ Issue("remove", pass.containerInfo.names, ok)
             /\ pass' = [pass EXCEPT !.pc = "run", !.containerInfo = NoInfo,
                                     !.ops = @ \cup {"remove"}, !.errors = @ \/ ~ok]
    /\ UNCHANGED <<driver, declared, ownContainers, monitoringInterval, ownContainersStats,
                   waitAllChecked, destroyed, mon, des, rtNetworks, rtVolumes, rtImages,
                   nextId, seeded>>
    /\ turn' = ~turn
    /\ UNCHANGED <<pending, call, plugin>>
    /\ UNCHANGED <<compose, calc>>

\* imagePull and the image list after it (lines 675-696)
PassImagePull ==
    /\ pass.pc = "pull"
    /\ LET ref == ImageRef(Own(pass.c))
       IN  \E ok \in {TRUE, FALSE} :
             /\ ok \/ MayFail
             /\ budget' = IF ok THEN budget ELSE Fault(budget)
             /\ rtImages' = IF ok /\ ~ImagePresent(rtImages, ref) THEN WithImage(ref, 1) ELSE rtImages
             /\ Issue("imagePull", ref, ok)
             /\ LET p1 == [pass EXCEPT !.ops = @ \cup {"imagePull"}]
                IN  pass' = IF ok THEN EnsureOrRun([p1 EXCEPT !.images = rtImages', !.image = TRUE])
                            ELSE FailContainer(p1)
    /\ UNCHANGED <<driver, declared, ownContainers, monitoringInterval, ownContainersStats,
                   waitAllChecked, destroyed, mon, des, rtContainers, rtNetworks, rtVolumes,
                   nextId, seeded>>
    /\ turn' = ~turn
    /\ UNCHANGED <<pending, call, plugin>>
    /\ UNCHANGED <<compose, calc>>

\* containerRun (part_001 779-791): the runtime refuses a name in use ("conflict");
\* else the container runs ("ok"), nothing is created ("fail") or the container is
\* created and its start fails ("created")
PassContainerRun ==
    /\ pass.pc = "run"
    /\ LET container == Own(pass.c)
           inUse == \E k \in rtContainers : k.name = Name(container)
       IN  \E out \in {"ok", "fail", "created", "conflict"} :
             /\ (out = "conflict") = inUse
             /\ out \in {"fail", "created"} => MayFail
             /\ budget' = IF out \in {"fail", "created"} THEN Fault(budget) ELSE budget
             /\ rtContainers' =
                  CASE out = "ok" -> rtContainers \cup {NewContainer(container, "running")}
                    [] out = "created" -> rtContainers \cup {NewContainer(container, "created")}
                    [] OTHER -> rtContainers
             /\ nextId' = IF out \in {"ok", "created"} THEN nextId + 1 ELSE nextId
             /\ Issue("run", Name(container), out = "ok")
             /\ LET p1 == [pass EXCEPT !.ops = @ \cup {"run"}]
                IN  pass' = IF out = "ok" THEN DoneContainer(p1, container) ELSE FailContainer(p1)
    /\ UNCHANGED <<driver, declared, ownContainers, monitoringInterval, ownContainersStats,
                   waitAllChecked, destroyed, mon, des, rtNetworks, rtVolumes, rtImages, seeded>>
    /\ turn' = ~turn
    /\ UNCHANGED <<pending, call, plugin>>
    /\ UNCHANGED <<compose, calc>>

----------------------------------------------------------------------------
(* #ensureActualConfiguration and containerReCreate *)

\* containerInspect(name): the inspect data of the container of that name, if any
Inspectable(name) == \E k \in rtContainers : k.name = name
InspectData(name) == (CHOOSE k \in rtContainers : k.name = name).insp

\* a recreate that would carry on with the create after a failed step
ReCreateGoesOn(p) == [p EXCEPT !.pc = "rcCreate"]

\* a failure inside containerReCreate: dockerode lets the exception leave the call, and
\* the catch of the pass takes it; the child process path returns it as stderr, and
\* #ensureActualConfiguration goes on with the container list
ReCreateFailed(p) ==
    IF driver = "api" THEN FailContainer(p) ELSE [p EXCEPT !.pc = "ensList", !.errors = TRUE]

\* lines 485-503: inspect, canonicalize, compare
EnsureInspect ==
    /\ pass.pc = "inspect"
    /\ LET container == Own(pass.c)
       IN  IF ~Inspectable(Name(container))
               THEN pass' = DoneContainer(pass, container)
           ELSE LET existingConfig == mapInspectToConfig(InspectData(Name(container)))
                    desired == cleanContainerConfig(container, FALSE)
                    diffs == compareConfigs(desired, existingConfig)
                IN  pass' = IF diffs = Throw THEN FailContainer(pass)
                            ELSE IF diffs.v # {}
                                THEN [pass EXCEPT !.pc = "rcList", !.desired = desired, !.diff = "drift"]
                            ELSE [pass EXCEPT !.pc = "ensList", !.desired = desired, !.diff = "empty"]
    /\ Quiet
    /\ UNCHANGED <<driver, declared, ownContainers, monitoringInterval, ownContainersStats,
                   waitAllChecked, destroyed, mon, des, rtContainers, rtNetworks, rtVolumes,
                   rtImages, nextId, seeded, budget>>
    /\ turn' = ~turn
    /\ UNCHANGED <<pending, call, plugin>>
    /\ UNCHANGED <<compose, calc>>

\* containerReCreate: the container list and the choice of the first step
ReCreateList ==
    /\ pass.pc = "rcList"
    /\ LET info == FindByName(ContainerList, Name(pass.desired))
       IN  pass' = [pass EXCEPT !.rc = info,
                                !.pc = IF info = NoInfo THEN "rcCreate"
                                       ELSE IF Up(info.status) THEN "rcStop" ELSE "rcRemove"]
    /\ Quiet
    /\ UNCHANGED <<driver, declared, ownContainers, monitoringInterval, ownContainersStats,
                   waitAllChecked, destroyed, mon, des, rtContainers, rtNetworks, rtVolumes,
                   rtImages, nextId, seeded, budget>>
    /\ turn' = ~turn
    /\ UNCHANGED <<pending, call, plugin>>
    /\ UNCHANGED <<compose, calc>>

\* stop <id>, then the list: the container must not be 'running'
ReCreateStop ==
    /\ pass.pc = "rcStop"
    /\ LET there == \E k \in rtContainers : k.id = pass.rc.id
       IN  \E ok \in {TRUE, FALSE} :
             /\ ok => there
             /\ (~ok /\ there) => MayFail
             /\ budget' = IF ~ok /\ there THEN Fault(budget) ELSE budget
             /\ rtContainers' = IF ok THEN SetStatus(pass.rc.id, "exited") ELSE rtContainers
             /\ Issue("stop", pass.rc.names, ok)
             /\ LET p1 == [pass EXCEPT !.ops = @ \cup {"stop"}]
                IN  pass' = IF ok THEN [p1 EXCEPT !.pc = "rcRemove"] ELSE ReCreateFailed(p1)
    /\ UNCHANGED <<driver, declared, ownContainers, monitoringInterval, ownContainersStats,
                   waitAllChecked, destroyed, mon, des, rtNetworks, rtVolumes, rtImages,
                   nextId, seeded>>
    /\ turn' = ~turn
    /\ UNCHANGED <<pending, call, plugin>>
    /\ UNCHANGED <<compose, calc>>

\* rm <id>, then the list: the container must be gone. The runtime removes no container
\* that is up.
ReCreateRemove ==
    /\ pass.pc = "rcRemove"
    /\ LET removable == \E k \in rtContainers : k.id = pass.rc.id /\ ~Up(k.status)
       IN  \E ok \in {TRUE, FALSE} :
             /\ ok => removable
             /\ (~ok /\ removable) => MayFail
             /\ budget' = IF ~ok /\ removable THEN Fault(budget) ELSE budget
             /\ rtContainers' = IF ok THEN WithoutId(pass.rc.id) ELSE rtContainers
             /\ Issue("remove", pass.rc.names, ok)
             /\ LET p1 == [pass EXCEPT !.ops = @ \cup {"remove"}]
                IN  pass' = IF ok THEN [p1 EXCEPT !.pc = "rcCreate"] ELSE ReCreateFailed(p1)
    /\ UNCHANGED <<driver, declared, ownContainers, monitoringInterval, ownContainersStats,
                   waitAllChecked, destroyed, mon, des, rtNetworks, rtVolumes, rtImages,
                   nextId, seeded>>
    /\ turn' = ~turn
    /\ UNCHANGED <<pending, call, plugin>>
    /\ UNCHANGED <<compose, calc>>

\* create from the canonical desired config; the container is not started
ReCreateCreate ==
    /\ pass.pc = "rcCreate"
    /\ LET inUse == \E k \in rtContainers : k.name = Name(pass.desired)
       IN  \E ok \in {TRUE, FALSE} :
             /\ ok => ~inUse
             /\ (~ok /\ ~inUse) => MayFail
             /\ budget' = IF ~ok /\ ~inUse THEN Fault(budget) ELSE budget
             /\ rtContainers' = IF ok THEN rtContainers \cup {NewContainer(pass.desired, "created")}
                                ELSE rtContainers
             /\ nextId' = IF ok THEN nextId + 1 ELSE nextId
             /\ Issue("create", Name(pass.desired), ok)
             /\ LET p1 == [pass EXCEPT !.ops = @ \cup {"create"}]
                IN  pass' = IF ok THEN [p1 EXCEPT !.pc = "ensList"] ELSE ReCreateFailed(p1)
    /\ UNCHANGED <<driver, declared, ownContainers, monitoringInterval, ownContainersStats,
                   waitAllChecked, destroyed, mon, des, rtNetworks, rtVolumes, rtImages, seeded>>
    /\ turn' = ~turn
    /\ UNCHANGED <<pending, call, plugin>>
    /\ UNCHANGED <<compose, calc>>

\* lines 505-525: the container list after the comparison
EnsureList ==
    /\ pass.pc = "ensList"
    /\ LET info == FindByName(ContainerList, Name(pass.desired))
           p1 == [pass EXCEPT !.seen = IF info = NoInfo THEN "missing" ELSE info.status]
       IN  pass' = IF info # NoInfo /\ ~Up(info.status)
                       THEN [p1 EXCEPT !.pc = "ensStart", !.containerInfo = info]
                       ELSE DoneContainer(p1, pass.desired)
    /\ Quiet
    /\ UNCHANGED <<driver, declared, ownContainers, monitoringInterval, ownContainersStats,
                   waitAllChecked, destroyed, mon, des, rtContainers, rtNetworks, rtVolumes,
                   rtImages, nextId, seeded, budget>>
    /\ turn' = ~turn
    /\ UNCHANGED <<pending, call, plugin>>
    /\ UNCHANGED <<compose, calc>>

\* containerStart(containerInfo.id) (part_001 1116-1159), its failure only logged
EnsureStart ==
    /\ pass.pc = "ensStart"
    /\ LET there == \E k \in rtContainers : k.id = pass.containerInfo.id
       IN  \E ok \in {TRUE, FALSE} :
             /\ ok => there
             /\ (~ok /\ there) => MayFail
             /\ budget' = IF ~ok /\ there THEN Fault(budget) ELSE budget
             /\ rtContainers' = IF ok THEN SetStatus(pass.containerInfo.id, "running") ELSE rtContainers
             /\ Issue("start", pass.containerInfo.names, ok)
             /\ pass' = DoneContainer([pass EXCEPT !.ops = @ \cup {"start"}, !.errors = @ \/ ~ok],
                                      pass.desired)
    /\ UNCHANGED <<driver, declared, ownContainers, monitoringInterval, ownContainersStats,
                   waitAllChecked, destroyed, mon, des, rtNetworks, rtVolumes, rtImages,
                   nextId, seeded>>
    /\ turn' = ~turn
    /\ UNCHANGED <<pending, call, plugin>>
    /\ UNCHANGED <<compose, calc>>

----------------------------------------------------------------------------
(* #ownContainersMonitor: one tick of the monitoring timer *)

\* a monitor that would watch every enabled container
WatchedAny(cfg) == ~IsFalse(Get(cfg, "iobEnabled")) /\ ~Falsy(Get(cfg, "name"))

Watched(cfg) ==
    /\ ~IsFalse(Get(cfg, "iobEnabled"))
    /\ Monitored(cfg)
    /\ ~Falsy(Get(cfg, "name"))
\* running?.status || 'unknown'
ListedStatus(list, name) ==
    IF FindByName(list, name) = NoInfo THEN "unknown" ELSE FindByName(list, name).status
NotRunning(list, name) == ~Up(ListedStatus(list, name))
Record(name, status) == (name :> status) @@ ownContainersStats
\* a change of the runtime ends the quiet period that follows a pass without errors
Disturb(p, changed) == IF changed THEN [p EXCEPT !.idem = FALSE] ELSE p

\* the timer fires: line 814
MonitorTick ==
    /\ monitoringInterval
    /\ mon.pc = "idle"
    /\ mon' = [IdleMon EXCEPT !.pc = "loop", !.c = 1, !.containers = ContainerList]
    /\ lastOp' = NoOp
    /\ UNCHANGED <<driver, declared, ownContainers, monitoringInterval, ownContainersStats,
                   waitAllChecked, destroyed, pass, des, rtContainers, rtNetworks, rtVolumes,
                   rtImages, nextId, hist, seeded, budget>>
    /\ UNCHANGED <<turn, pending, call, plugin>>
    /\ UNCHANGED <<compose, calc>>

\* lines 821-843: containerStart(container.name) for a container that is not up in the
\* list of the tick, and the stats after it
MonitorStart ==
    /\ mon.pc = "loop"
    /\ mon.c <= Len(ownContainers)
    /\ Watched(Own(mon.c))
    /\ NotRunning(mon.containers, Name(Own(mon.c)))
    /\ LET name == Name(Own(mon.c))
           info == FindByRef(ContainerList, name)
           there == info # NoInfo
       IN  \E ok \in {TRUE, FALSE} :
             /\ ok => there
             /\ (~ok /\ there) => MayFail
             /\ budget' = IF ~ok /\ there THEN Fault(budget) ELSE budget
             /\ rtContainers' = IF ok THEN SetStatus(info.id, "running") ELSE rtContainers
             /\ lastOp' = [Op("monitor", "start", name) EXCEPT
                              !.flags = (IF ok THEN {"ok"} ELSE {}) \cup (IF there THEN {"exec"} ELSE {})]
             /\ ownContainersStats' = Record(name, ListedStatus(mon.containers, name))
             /\ mon' = [mon EXCEPT !.c = @ + 1, !.started = Append(@, name),
                                   !.failed = IF ok THEN @ ELSE @ \cup {name},
                                   !.seen = Append(@, name), !.pos = Append(@, mon.c)]
             /\ pass' = Disturb(pass, there)
    /\ UNCHANGED <<driver, declared, ownContainers, monitoringInterval, waitAllChecked,
                   destroyed, des, rtNetworks, rtVolumes, rtImages, nextId, hist, seeded>>
    /\ UNCHANGED <<turn, pending, call, plugin>>
    /\ UNCHANGED <<compose, calc>>

\* lines 845-850: the stats of a container that is up in the list of the tick
MonitorStats ==
    /\ mon.pc = "loop"
    /\ mon.c <= Len(ownContainers)
    /\ Watched(Own(mon.c))
    /\ ~NotRunning(mon.containers, Name(Own(mon.c)))
    /\ ownContainersStats' = Record(Name(Own(mon.c)), ListedStatus(mon.containers, Name(Own(mon.c))))
    /\ mon' = [mon EXCEPT !.c = @ + 1, !.seen = Append(@, Name(Own(mon.c)))]
    /\ lastOp' = NoOp
    /\ UNCHANGED <<driver, declared, ownContainers, monitoringInterval, waitAllChecked,
                   destroyed, pass, des, rtContainers, rtNetworks, rtVolumes, rtImages,
                   nextId, hist, seeded, budget>>
    /\ UNCHANGED <<turn, pending, call, plugin>>
    /\ UNCHANGED <<compose, calc>>

\* line 818: a container that is disabled or not monitored
MonitorSkip ==
    /\ mon.pc = "loop"
    /\ mon.c <= Len(ownContainers)
    /\ ~Watched(Own(mon.c))
    /\ mon' = [mon EXCEPT !.c = @ + 1, !.seen = Append(@, Name(Own(mon.c)))]
    /\ lastOp' = NoOp
    /\ UNCHANGED <<driver, declared, ownContainers, monitoringInterval, ownContainersStats,
                   waitAllChecked, destroyed, pass, des, rtContainers, rtNetworks, rtVolumes,
                   rtImages, nextId, hist, seeded, budget>>
    /\ UNCHANGED <<turn, pending, call, plugin>>
    /\ UNCHANGED <<compose, calc>>

MonitorEnd ==
    /\ mon.pc = "loop"
    /\ mon.c > Len(ownContainers)
    /\ mon' = IdleMon
    /\ lastOp' = NoOp
    /\ UNCHANGED <<driver, declared, ownContainers, monitoringInterval, ownContainersStats,
                   waitAllChecked, destroyed, pass, des, rtContainers, rtNetworks, rtVolumes,
                   rtImages, nextId, hist, seeded, budget>>
    /\ UNCHANGED <<turn, pending, call, plugin>>
    /\ UNCHANGED <<compose, calc>>

----------------------------------------------------------------------------
(* destroy *)

\* a destroy that would not look at iobEnabled
StopOnUnloadAny(cfg) == ~Falsy(Get(cfg, "iobStopOnUnload")) /\ ~Falsy(Get(cfg, "name"))

StopOnUnload(cfg) ==
    /\ ~IsFalse(Get(cfg, "iobEnabled"))
    /\ ~Falsy(Get(cfg, "iobStopOnUnload"))
    /\ ~Falsy(Get(cfg, "name"))

\* lines 862-866
DestroyCall ==
    /\ MayHappen
    /\ plugin # "waiting"
    /\ ~destroyed
    /\ des.pc = "idle"
    /\ budget' = Event(budget)
    /\ destroyed' = TRUE
    /\ monitoringInterval' = FALSE
    /\ des' = [pc |-> "loop", c |-> 1]
    /\ lastOp' = NoOp
    /\ UNCHANGED <<driver, declared, ownContainers, ownContainersStats, waitAllChecked, pass,
                   mon, rtContainers, rtNetworks, rtVolumes, rtImages, nextId, hist, seeded>>
    /\ UNCHANGED <<turn, pending, call, plugin>>
    /\ UNCHANGED <<compose, calc>>

\* lines 868-877: containerStop(container.name) (part_001 1073-1109), its failure logged
DestroyStop ==
    /\ des.pc = "loop"
    /\ des.c <= Len(ownContainers)
    /\ StopOnUnload(Own(des.c))
    /\ LET name == Name(Own(des.c))
           info == FindByRef(ContainerList, name)
           there == info # NoInfo
       IN  \E ok \in {TRUE, FALSE} :
             /\ ok => there
             /\ (~ok /\ there) => MayFail
             /\ budget' = IF ~ok /\ there THEN Fault(budget) ELSE budget
             /\ rtContainers' = IF ok /\ Up(info.status) THEN SetStatus(info.id, "exited")
                                ELSE rtContainers
             /\ lastOp' = [Op("destroy", "stop", name) EXCEPT
                              !.flags = (IF ok THEN {"ok"} ELSE {}) \cup (IF there THEN {"exec"} ELSE {})]
             /\ pass' = Disturb(pass, there)
    /\ des' = [des EXCEPT !.c = @ + 1]
    /\ UNCHANGED <<driver, declared, ownContainers, monitoringInterval, ownContainersStats,
                   waitAllChecked, destroyed, mon, rtNetworks, rtVolumes, rtImages, nextId,
                   hist, seeded>>
    /\ UNCHANGED <<turn, pending, call, plugin>>
    /\ UNCHANGED <<compose, calc>>

DestroySkip ==
    /\ des.pc = "loop"
    /\ des.c <= Len(ownContainers)
    /\ ~StopOnUnload(Own(des.c))
    /\ des' = [des EXCEPT !.c = @ + 1]
    /\ lastOp' = NoOp
    /\ UNCHANGED <<driver, declared, ownContainers, monitoringInterval, ownContainersStats,
                   waitAllChecked, destroyed, pass, mon, rtContainers, rtNetworks, rtVolumes,
                   rtImages, nextId, hist, seeded, budget>>
    /\ UNCHANGED <<turn, pending, call, plugin>>
    /\ UNCHANGED <<compose, calc>>

DestroyEnd ==
    /\ des.pc = "loop"
    /\ des.c > Len(ownContainers)
    /\ des' = [pc |-> "done", c |-> 0]
    /\ lastOp' = NoOp
    /\ UNCHANGED <<driver, declared, ownContainers, monitoringInterval, ownContainersStats,
                   waitAllChecked, destroyed, pass, mon, rtContainers, rtNetworks, rtVolumes,
                   rtImages, nextId, hist, seeded, budget>>
    /\ UNCHANGED <<turn, pending, call, plugin>>
    /\ UNCHANGED <<compose, calc>>

----------------------------------------------------------------------------
(* ownContainerModify, the restart of the process, and the environment *)

\* { ...oldContainer, ...changes }
Merge(old, changes) == JObj(changes.v @@ old.v)
\* the changes a caller hands to ownContainerModify
Changes == {JObj(<<>>), JObj([environment |-> JObj([MODE |-> JStr(<<"two">>)])])}
\* findIndex(c => c.name === containerName), 0 for -1
IndexOfName(nm) ==
    IF \E i \in 1..Len(ownContainers) : StrictEq(Get(Own(i), "name"), nm)
        THEN CHOOSE i \in 1..Len(ownContainers) :
                 /\ StrictEq(Get(Own(i), "name"), nm)
                 /\ \A j \in 1..(i - 1) : ~StrictEq(Get(Own(j), "name"), nm)
        ELSE 0

\* ownContainerModify(name, changes) without a new name, called while no pass is running
OwnContainerModify ==
    /\ MayHappen
    /\ plugin # "waiting"
    /\ ~destroyed
    /\ pass.pc = "idle"
    /\ \E d \in 1..Len(declared), changes \in Changes :
         LET containerName == modifyContainerName(Get(declared[d], "name"))
             index == IF containerName = Throw THEN 0 ELSE IndexOfName(containerName)
         IN  /\ index # 0
             /\ LET newContainer == Merge(Own(index), changes)
                IN  /\ ownContainers' = SetOwn(index, cleanContainerConfig(newContainer, FALSE))
                    /\ monitoringInterval' = (monitoringInterval \/ Monitored(newContainer))
                    /\ pass' = [IdlePass EXCEPT !.pc = "list",
                                                !.idem = pass.idem /\ Keys(changes) = {}]
    /\ budget' = Event(budget)
    /\ lastOp' = NoOp
    /\ UNCHANGED <<driver, declared, ownContainersStats, waitAllChecked, destroyed, mon, des,
                   rtContainers, rtNetworks, rtVolumes, rtImages, nextId, hist, seeded>>
    /\ UNCHANGED <<turn, pending, call, plugin>>
    /\ UNCHANGED <<compose, calc>>

\* the names a caller hands to the controller
CallNames == {<<"app">>, <<"side">>, <<"extra">>}
\* the configs a caller hands to ownContainerAdd
AddConfigs ==
    {Config(JStr(<<"app">>), TRUE, TRUE, Undef, <<>>, <<>>),
     Config(JStr(<<"extra">>), TRUE, FALSE, Undef, <<>>, <<>>)}
\* a check that would find no name taken
NameFree(nm, but) == FALSE
\* #ownContainers.find(c => c.name === name && c.name !== but)
NameTaken(nm, but) ==
    \E i \in 1..Len(ownContainers) :
        StrictEq(Get(Own(i), "name"), nm) /\ ~StrictEq(Get(Own(i), "name"), but)
\* await this.#checkOwnContainers() of a call: the pass starts, or it comes after the
\* pass that is under way
PassAsked ==
    IF pass.pc = "idle"
        THEN pass' = StartPass /\ pending' = pending
        ELSE pass' = [pass EXCEPT !.idem = FALSE] /\ pending' = pending + 1
CallPossible ==
    /\ MayHappen
    /\ plugin # "waiting"
    /\ ~destroyed
    /\ call.pc = "idle"
Called(op, name, to, thrown) ==
    [op |-> op, name |-> name, to |-> to, pc |-> "idle", thrown |-> thrown,
     timer |-> monitoringInterval, failed |-> FALSE]

\* ownContainerAdd(container), lines 754-770
OwnContainerAdd ==
    /\ CallPossible
    /\ pass.pc \in {"idle", "list"}
    /\ \E container \in AddConfigs :
         LET nm == modifyContainerName(Get(container, "name"))
             c1 == Put(container, "name", nm)
         IN  IF NameTaken(nm, Undef)
                 THEN /\ call' = Called("add", <<>>, nm.v, TRUE)
                      /\ UNCHANGED <<ownContainers, monitoringInterval, pass, pending>>
                 ELSE /\ call' = Called("add", <<>>, nm.v, FALSE)
                      /\ ownContainers' = Append(ownContainers, c1)
                      /\ monitoringInterval' = (monitoringInterval \/ Monitored(c1))
                      /\ PassAsked
    /\ budget' = Event(budget)
    /\ lastOp' = NoOp
    /\ UNCHANGED <<driver, declared, ownContainersStats, waitAllChecked, destroyed, mon, des,
                   rtContainers, rtNetworks, rtVolumes, rtImages, nextId, hist, seeded, turn,
                   plugin>>
    /\ UNCHANGED <<compose, calc>>

\* ownContainerModify(containerName, {name: to}), lines 729-751, called while no
\* monitor tick and no destroy is under way
OwnContainerRename ==
    /\ CallPossible
    /\ pass.pc \in {"idle", "list"}
    /\ mon.pc = "idle" /\ des.pc # "loop"
    /\ \E name \in CallNames, to \in CallNames :
         LET containerName == modifyContainerName(JStr(name))
             index == IndexOfName(containerName)
             old == Get(Own(index), "name")
             renamed == ~StrictEq(JStr(to), old)
             newName == IF renamed THEN modifyContainerName(JStr(to)) ELSE JStr(to)
             newContainer == Put(Own(index), "name", newName)
         IN  IF index = 0 \/ (renamed /\ NameTaken(newName, old))
                 THEN /\ call' = Called("rename", containerName.v,
                                         modifyContainerName(JStr(to)).v, TRUE)
                      /\ UNCHANGED <<ownContainers, monitoringInterval, pass, pending>>
                 ELSE /\ call' = Called("rename", containerName.v, newName.v, FALSE)
                      /\ ownContainers' = SetOwn(index, cleanContainerConfig(newContainer, FALSE))
                      /\ monitoringInterval' = (monitoringInterval \/ Monitored(newContainer))
                      /\ PassAsked
    /\ budget' = Event(budget)
    /\ lastOp' = NoOp
    /\ UNCHANGED <<driver, declared, ownContainersStats, waitAllChecked, destroyed, mon, des,
                   rtContainers, rtNetworks, rtVolumes, rtImages, nextId, hist, seeded, turn,
                   plugin>>
    /\ UNCHANGED <<compose, calc>>

\* this.#ownContainers.splice(index, 1)
Splice(index) == [i \in 1..(Len(ownContainers) - 1) |->
                     IF i < index THEN ownContainers[i] ELSE ownContainers[i + 1]]

\* ownContainerRemove(containerName), lines 773-785, up to the await of containerRemove;
\* called while no pass, no monitor tick and no destroy is under way
OwnContainerRemove ==
    /\ CallPossible
    /\ pass.pc = "idle"
    /\ mon.pc = "idle" /\ des.pc # "loop"
    /\ \E name \in CallNames :
         LET containerName == modifyContainerName(JStr(name))
             index == IndexOfName(containerName)
             left == Splice(index)
         IN  IF index = 0
                 THEN /\ call' = Called("remove", containerName.v, <<>>, TRUE)
                      /\ UNCHANGED <<ownContainers, monitoringInterval, ownContainersStats, pass>>
                 ELSE /\ call' = [Called("remove", containerName.v, <<>>, FALSE) EXCEPT !.pc = "remove"]
                      /\ ownContainers' = left
                      /\ ownContainersStats' =
                            [n \in DOMAIN ownContainersStats \ {containerName.v} |-> ownContainersStats[n]]
                      /\ monitoringInterval' =
                            (monitoringInterval /\ \E i \in 1..Len(left) : Monitored(left[i]))
                      /\ pass' = Disturb(pass, TRUE)
    /\ budget' = Event(budget)
    /\ lastOp' = NoOp
    /\ UNCHANGED <<driver, declared, waitAllChecked, destroyed, mon, des, rtContainers,
                   rtNetworks, rtVolumes, rtImages, nextId, hist, seeded, turn, pending, plugin>>
    /\ UNCHANGED <<compose, calc>>

\* lines 786-804: containerRemove(containerName) (part_001 1220-1249), whose result is
\* not looked at, then the network and the volume of that very name
RemoveRuntime ==
    /\ call.pc = "remove"
    /\ LET info == FindByRef(ContainerList, call.name)
           own == Len(call.name) > 2 /\ call.name[1] = Prefix[1] /\ call.name[2] = Sep[1]
       IN  \E ok \in {TRUE, FALSE} :
             /\ ok => info # NoInfo
             /\ (~ok /\ info # NoInfo) => MayFail
             /\ budget' = IF ~ok /\ info # NoInfo THEN Fault(budget) ELSE budget
             /\ rtContainers' = IF ok THEN WithoutId(info.id) ELSE rtContainers
             /\ rtNetworks' = IF ok /\ own THEN rtNetworks \ {call.name} ELSE rtNetworks
             /\ rtVolumes' = IF ok /\ own THEN rtVolumes \ {call.name} ELSE rtVolumes
             /\ lastOp' = [Op("api", "remove", call.name) EXCEPT !.flags = IF ok THEN {"ok"} ELSE {}]
             /\ call' = [call EXCEPT !.pc = "idle", !.failed = ~ok /\ info # NoInfo]
    /\ UNCHANGED <<driver, declared, ownContainers, monitoringInterval, ownContainersStats,
                   waitAllChecked, destroyed, pass, mon, des, rtImages, nextId, hist, seeded,
                   turn, pending, plugin>>
    /\ UNCHANGED <<compose, calc>>

\* the pass of a call that came while another pass was under way
PassQueued ==
    /\ pass.pc = "idle"
    /\ pending > 0
    /\ pending' = pending - 1
    /\ pass' = StartPass
    /\ lastOp' = NoOp
    /\ hist' = <<>>
    /\ UNCHANGED <<driver, declared, ownContainers, monitoringInterval, ownContainersStats,
                   waitAllChecked, destroyed, mon, des, rtContainers, rtNetworks, rtVolumes,
                   rtImages, nextId, seeded, budget, turn, call, plugin>>
    /\ UNCHANGED <<compose, calc>>

\* instanceIsReady() (part_000 196-198) when init() has not started the manager
InstanceIsReady ==
    /\ plugin = "waiting"
    /\ AnyEnabled(declared)
    /\ plugin' = "ready"
    /\ pass' = StartPass
    /\ lastOp' = NoOp
    /\ UNCHANGED <<driver, declared, ownContainers, monitoringInterval, ownContainersStats,
                   waitAllChecked, destroyed, mon, des, rtContainers, rtNetworks, rtVolumes,
                   rtImages, nextId, hist, seeded, budget, turn, pending, call>>
    /\ UNCHANGED <<compose, calc>>

\* the desired configs are those of the manifest
DesiredUnchanged ==
    /\ Len(ownContainers) = Len(declared)
    /\ \A i \in 1..Len(declared) :
         /\ Get(Own(i), "environment") = Get(declared[i], "environment")
         /\ Get(Own(i), "name") \in {Get(declared[i], "name"), modifyContainerName(Get(declared[i], "name"))}

\* the process ends and starts again: constructor and init() on the same runtime
ProcessRestart ==
    /\ MayHappen
    /\ budget' = Event(budget)
    /\ ownContainers' = declared
    /\ monitoringInterval' = FALSE
    /\ ownContainersStats' = <<>>
    /\ waitAllChecked' = FALSE
    /\ destroyed' = FALSE
    /\ plugin' = StartOf(declared)
    /\ pass' = IF plugin' = "started"
                   THEN [StartPass EXCEPT !.idem = pass.idem /\ pass.pc = "idle" /\ DesiredUnchanged]
                   ELSE IdlePass
    /\ pending' = 0
    /\ call' = IdleCall
    /\ mon' = IdleMon
    /\ des' = IdleDes
    /\ lastOp' = NoOp
    /\ hist' = <<>>
    /\ UNCHANGED <<driver, declared, rtContainers, rtNetworks, rtVolumes, rtImages, nextId,
                   seeded>>
    /\ UNCHANGED turn
    /\ UNCHANGED <<compose, calc>>

\* a running container ends on its own, or its restart policy takes it up
ContainerCrash ==
    /\ MayHappen
    /\ \E k \in rtContainers, st \in {"exited", "restarting"} :
         /\ k.status = "running"
         /\ rtContainers' = SetStatus(k.id, st)
    /\ budget' = Event(budget)
    /\ pass' = Disturb(pass, TRUE)
    /\ lastOp' = NoOp
    /\ UNCHANGED <<driver, declared, ownContainers, monitoringInterval, ownContainersStats,
                   waitAllChecked, destroyed, mon, des, rtNetworks, rtVolumes, rtImages,
                   nextId, hist, seeded>>
    /\ UNCHANGED <<turn, pending, call, plugin>>
    /\ UNCHANGED <<compose, calc>>

----------------------------------------------------------------------------
(* The manifests and hosts of the model *)

NoMounts == <<>>
NoExtra == <<>>
Str(tok) == JStr(<<tok>>)
DataVolume == Prefix \o Sep \o <<"data">>
AppImage == [ref |-> <<"app", ":", "latest">>, id |-> 1]

Plain == <<Config(Str("app"), TRUE, TRUE, Undef, NoMounts, NoExtra)>>
Pair == <<Config(Str("app"), TRUE, TRUE, Undef, NoMounts, NoExtra),
          Config(Str("side"), TRUE, FALSE, Undef, NoMounts, NoExtra)>>
Provisioned ==
    <<Config(Str("web"), TRUE, TRUE, Str("mynet"), <<Mount(<<"data">>, <<"/data">>, TRUE, FALSE)>>, NoExtra),
      Config(Str("off"), FALSE, TRUE, Str("offnet"), <<Mount(<<"offvol">>, <<"/config">>, TRUE, TRUE)>>,
             [image |-> Str("offimg")])>>
Forced == <<Config(Str("app"), TRUE, FALSE, Undef, <<Mount(<<"data">>, <<"/data">>, TRUE, TRUE)>>, NoExtra)>>
Numbered == <<Config(JNum(NumToStr(7)), TRUE, FALSE, Undef, NoMounts, NoExtra),
              Config(Str("app"), TRUE, TRUE, Undef, NoMounts, NoExtra)>>
WithTmpfs ==
    <<Config(Str("app"), TRUE, FALSE, Undef, NoMounts,
             [tmpfs |-> JArr(<<JObj([target |-> JStr(<<"/run">>)])>>)])>>
AutoUpdated ==
    <<Config(Str("app"), TRUE, FALSE, Undef, NoMounts, [iobAutoImageUpdate |-> JBool(TRUE)])>>

\* the config of a container as a pass without volumes and networks leaves it
Settled(cfg) == Put(HeadNormalize(cfg), "name", modifyContainerName(Get(cfg, "name")))
\* the container an earlier run of the process has left on the host
LeftBehind(cfg, drv) ==
    [name |-> Name(Settled(cfg)), id |-> ContainerId(0), status |-> "running",
     insp |-> InspectOf(Settled(cfg), drv), image |-> AppImage.id]

Deferred ==
    <<Config(Str("app"), TRUE, TRUE, Undef, NoMounts, [iobWaitForReady |-> JBool(TRUE)]),
      Config(Str("side"), TRUE, FALSE, Undef, NoMounts, [iobStopOnUnload |-> JBool(FALSE)])>>

\* a container without a name of its own on the network 'iobroker', with a volume it
\* may only read
Shared ==
    <<Config(Str("true"), TRUE, FALSE, Str("iobroker"),
             <<Put(Mount(<<"conf">>, <<"/conf">>, FALSE, FALSE), "readOnly", JBool(TRUE))>>, NoExtra)>>

Host(drv, owned, volumes, images, left) ==
    [driver |-> drv, owned |-> owned, volumes |-> volumes, images |-> images,
     containers |-> {LeftBehind(owned[i], drv) : i \in left}]
Hosts ==
    {Host("cli", Plain, {}, {AppImage}, {}),
     Host("api", Plain, {}, {AppImage}, {}),
     Host("cli", Pair, {}, {}, {}),
     Host("cli", Provisioned, {}, {AppImage}, {}),
     Host("api", Provisioned, {DataVolume}, {AppImage}, {}),
     Host("cli", Forced, {DataVolume}, {AppImage}, {}),
     Host("api", Numbered, {}, {AppImage}, {}),
     Host("cli", WithTmpfs, {}, {AppImage}, {}),
     Host("api", AutoUpdated, {}, {AppImage}, {1}),
     Host("cli", Deferred, {}, {AppImage}, {}),
     Host("api", Shared, {}, {AppImage}, {})}

Init ==
    /\ \E h \in Hosts :
         /\ driver = h.driver
         /\ declared = h.owned
         /\ rtVolumes = h.volumes
         /\ rtImages = h.images
         /\ rtContainers = h.containers
    /\ rtNetworks = {}
    /\ ownContainers = declared
    /\ monitoringInterval = FALSE
    /\ ownContainersStats = <<>>
    /\ waitAllChecked = FALSE
    /\ destroyed = FALSE
    /\ plugin = StartOf(declared)
    /\ pass = IF plugin = "started" THEN StartPass ELSE IdlePass
    /\ pending = 0
    /\ call = IdleCall
    /\ turn = FALSE
    /\ mon = IdleMon
    /\ des = IdleDes
    /\ nextId = 1
    /\ lastOp = NoOp
    /\ hist = <<>>
    /\ seeded = {}
    /\ budget = [faults |-> MaxFaults, events |-> MaxEvents]
    /\ compose = NoService
    /\ calc = NoCalc

Next ==
    \/ PassList \/ PassHead \/ PassFinish \/ PassNetworkCreate
    \/ PassMount \/ PassVolumeCreate \/ PassVolumeCopy
    \/ PassImageUpdate \/ PassImageRemove \/ PassImagePull \/ PassContainerRun
    \/ EnsureInspect \/ ReCreateList \/ ReCreateStop \/ ReCreateRemove \/ ReCreateCreate
    \/ EnsureList \/ EnsureStart
    \/ MonitorTick \/ MonitorStart \/ MonitorStats \/ MonitorSkip \/ MonitorEnd
    \/ DestroyCall \/ DestroyStop \/ DestroySkip \/ DestroyEnd
    \/ OwnContainerModify \/ ProcessRestart \/ ContainerCrash
    \/ OwnContainerAdd \/ OwnContainerRename \/ PassQueued \/ InstanceIsReady
    \/ OwnContainerRemove \/ RemoveRuntime

Spec == Init /\ [][Next]_vars

\* composeToContainerConfigs (parseDockerCompose.ts 1090-1100), the file having the one
\* service 'app'
composeToContainerConfigs(top) == <<composeServiceToContainerConfig(<<"app">>, top)>>

\* part_000 94-103: the configs of a compose file, none when an exception is caught
LoadConfigs(svc, native) ==
    LET pureFileConfig == walkTheConfig(composeFromYaml(svc), native, Undef)
    IN  IF pureFileConfig = Throw THEN <<>> ELSE composeToContainerConfigs(pureFileConfig)

\* getDockerodeConfig (part_001 583-774): the create options made of the name, the
\* image, the command, the environment, the labels, the mounts, the network mode and
\* the flags of the root file system
getDockerodeConfig(config) ==
    LET mounts == Mounts(config)
        setting(m) ==
            JObj([Target |-> Get(m, "target"),
                  Source |-> IF Falsy(Get(m, "source")) THEN JStr(<<>>) ELSE Get(m, "source"),
                  Type |-> Get(m, "type"),
                  ReadOnly |-> Get(m, "readOnly"),
                  Consistency |-> Get(m, "consistency")])
        env == Get(config, "environment")
        command == Get(config, "command")
        networkMode == Get(config, "networkMode")
    IN  IF \E i \in 1..Len(mounts) :
               IsTrue(Get(mounts[i], "source")) \/ IsStr(Get(mounts[i], "source"), <<"true">>)
            THEN Throw
        ELSE IF Falsy(Get(config, "name")) THEN Throw
        ELSE JObj([name |-> Get(config, "name"),
                   Image |-> Get(config, "image"),
                   Cmd |-> IF command.t = "arr" THEN command
                           ELSE IF command.t = "str" THEN JArr(<<command>>) ELSE Undef,
                   Env |-> IF env.t = "obj"
                               THEN JArr([i \in 1..Len(InOrder(Keys(env))) |->
                                        JStr(<<InOrder(Keys(env))[i], "=">>
                                             \o String(env.v[InOrder(Keys(env))[i]]))])
                               ELSE Undef,
                   Labels |-> Get(config, "labels"),
                   HostConfig |->
                       JObj([Mounts |-> IF Len(mounts) > 0
                                            THEN JArr([i \in 1..Len(mounts) |-> setting(mounts[i])])
                                            ELSE Undef,
                             NetworkMode |-> IF IsTrue(networkMode) \/ IsStr(networkMode, <<"true">>)
                                                 THEN JStr(<<>>)
                                             ELSE IF Falsy(networkMode) THEN Undef ELSE networkMode,
                             Privileged |-> Get(Get(config, "security"), "privileged"),
                             ReadonlyRootfs |-> Get(config, "readOnly")]),
                   Tty |-> Get(config, "tty"),
                   OpenStdin |-> Get(config, "openStdin")])

RECURSIVE Flatten(_)
Flatten(lists) == IF Len(lists) = 0 THEN <<>> ELSE lists[1] \o Flatten(Tail(lists))

\* toDockerRun (part_001 1458-1650): the arguments before they are joined by blanks
toDockerRun(config, create) ==
    LET env == Get(config, "environment")
        labels == Get(config, "labels")
        envKeys == InOrder({k \in Keys(env) : ~Falsy(env.v[k])})
        labelKeys == InOrder(Keys(labels))
        mounts == Mounts(config)
        mount(m) ==
            <<"type", "=">> \o String(Get(m, "type")) \o <<",", "target", "=">>
                \o String(Get(m, "target"))
                \o (IF Falsy(Get(m, "source")) THEN <<>>
                    ELSE <<",", "source", "=">> \o String(Get(m, "source")))
                \o (IF Falsy(Get(m, "readOnly")) THEN <<>> ELSE <<",", "readonly">>)
        command == Get(config, "command")
    IN  (IF ~IsFalse(Get(config, "detach")) /\ ~create THEN <<<<"-d">>>> ELSE <<>>)
        \o (IF Falsy(Get(config, "tty")) THEN <<>> ELSE <<<<"-t">>>>)
        \o (IF Falsy(Get(config, "name")) THEN <<>> ELSE <<<<"--name">>, String(Get(config, "name"))>>)
        \o Flatten([i \in 1..Len(envKeys) |->
                       <<<<"-e">>, <<envKeys[i], "=">> \o String(env.v[envKeys[i]])>>])
        \o Flatten([i \in 1..Len(labelKeys) |->
                       <<<<"--label">>, <<labelKeys[i], "=">> \o String(labels.v[labelKeys[i]])>>])
        \o Flatten([i \in 1..Len(mounts) |-> <<<<"--mount">>, mount(mounts[i])>>])
        \o (IF Falsy(Get(config, "user")) THEN <<>> ELSE <<<<"--user">>, String(Get(config, "user"))>>)
        \o (IF Falsy(Get(Get(config, "security"), "privileged")) THEN <<>>
            ELSE <<<<"--privileged">>>>)
        \o <<String(Get(config, "image"))>>
        \o (IF command.t = "arr" THEN [i \in 1..Len(command.v) |-> String(command.v[i])]
            ELSE IF Falsy(command) THEN <<>> ELSE <<String(command)>>)

\* init() of the plugin on a compose file with one service: the labels of the service
\* are drawn from Services, the config is what the converter makes of them
LoadInit ==
    /\ compose \in Services
    /\ driver = "cli"
    /\ declared = <<>>
    /\ rtVolumes = {} /\ rtImages = {} /\ rtContainers = {} /\ rtNetworks = {}
    /\ ownContainers = <<>>
    /\ monitoringInterval = FALSE
    /\ ownContainersStats = <<>>
    /\ waitAllChecked = FALSE
    /\ destroyed = FALSE
    /\ plugin = "loading"
    /\ pass = IdlePass
    /\ pending = 0
    /\ call = IdleCall
    /\ turn = FALSE
    /\ mon = IdleMon
    /\ des = IdleDes
    /\ nextId = 1
    /\ lastOp = NoOp
    /\ hist = <<>>
    /\ seeded = {}
    /\ budget = [faults |-> MaxFaults, events |-> MaxEvents]
    /\ calc = NoCalc

\* part_000 72-110 and 156-158: the configs of the file are pushed, and the manager is
\* started with them unless one of them waits
PluginInit ==
    /\ plugin = "loading"
    /\ declared' = LoadConfigs(ServiceOf(compose), JObj(<<>>))
    /\ ownContainers' = declared'
    /\ plugin' = StartOf(declared')
    /\ pass' = IF plugin' = "started" THEN StartPass ELSE IdlePass
    /\ UNCHANGED <<driver, monitoringInterval, ownContainersStats, waitAllChecked, destroyed,
                   mon, des, rtContainers, rtNetworks, rtVolumes, rtImages, nextId, lastOp,
                   hist, seeded, budget, turn, pending, call, compose, calc>>

LoadNext == PluginInit
LoadSpec == LoadInit /\ [][LoadNext]_vars

\* ---- Calls of the pure functions: the arguments are drawn by the initial state ----

\* everything but calc
world == <<driver, declared, ownContainers, monitoringInterval, ownContainersStats,
           waitAllChecked, destroyed, pass, mon, des, rtContainers, rtNetworks,
           rtVolumes, rtImages, nextId, lastOp, hist, seeded, budget, turn,
           pending, call, plugin, compose>>

\* no manager, no runtime activity
AtRest ==
    /\ compose = NoService
    /\ driver = "cli"
    /\ declared = <<>>
    /\ rtVolumes = {} /\ rtImages = {} /\ rtContainers = {} /\ rtNetworks = {}
    /\ ownContainers = <<>>
    /\ monitoringInterval = FALSE
    /\ ownContainersStats = <<>>
    /\ waitAllChecked = FALSE
    /\ destroyed = FALSE
    /\ plugin = "loading"
    /\ pass = IdlePass
    /\ pending = 0
    /\ call = IdleCall
    /\ turn = FALSE
    /\ mon = IdleMon
    /\ des = IdleDes
    /\ nextId = 1
    /\ lastOp = NoOp
    /\ hist = <<>>
    /\ seeded = {}
    /\ budget = [faults |-> MaxFaults, events |-> MaxEvents]

\* the placeholders: '{{config.path}}', '{{path}}', '${config.path}' and
\* '${config_path}', the last two with or without ':-default'; beside them
\* '{{config.}}' with an empty path, '{{config.path' that is never closed, and
\* '${path}' without the config prefix
TemplatePaths == {<<"a", ".", "b">>, <<"a">>, <<"c">>}
TemplateDefaults == {<<"none">>, <<":-", "true">>, <<":-", "5">>, <<":-", "v">>, <<":-">>}
Shapes ==
    [style : {"curly", "bare"}, path : TemplatePaths, default : {<<"none">>},
     wrap : {"whole", "head", "tail"}]
    \cup [style : {"dollar", "under"}, path : TemplatePaths, default : TemplateDefaults,
          wrap : {"whole", "head", "tail"}]
    \cup [style : {"curly"}, path : {<<>>}, default : {<<"none">>},
          wrap : {"whole", "head", "tail"}]
    \cup [style : {"open", "other"}, path : TemplatePaths, default : {<<"none">>},
          wrap : {"whole", "head"}]
Before(shape) == IF shape.wrap = "tail" THEN <<"x", "=">> ELSE <<>>
After(shape) == IF shape.wrap = "head" THEN <<":", "y">> ELSE <<>>
Placeholder(shape) ==
    LET dflt == IF shape.default = <<"none">> THEN <<>> ELSE shape.default
        under == [i \in 1..Len(shape.path) |-> IF shape.path[i] = "." THEN "_" ELSE shape.path[i]]
    IN  CASE shape.style = "curly" -> <<"{{", "config", ".">> \o shape.path \o <<"}}">>
          [] shape.style = "bare" -> <<"{{">> \o shape.path \o <<"}}">>
          [] shape.style = "dollar" -> <<"${", "config", ".">> \o shape.path \o dflt \o <<"}">>
          [] shape.style = "under" -> <<"${", "config", "_">> \o under \o dflt \o <<"}">>
          [] shape.style = "open" -> <<"{{", "config", ".">> \o shape.path
          [] OTHER -> <<"${">> \o shape.path \o <<"}">>
FieldOf(shape) == Before(shape) \o Placeholder(shape) \o After(shape)

Leaves ==
    {JBool(FALSE), JBool(TRUE), JNum(<<"8", "0">>), JNum(<<"0">>), JStr(<<"v">>), JStr(<<>>),
     JArr(<<JStr(<<"p">>), JNum(<<"2">>)>>), JObj([k |-> JStr(<<"v">>)]),
     JStr(<<"{{", "config", ".", "a", "}}">>), JStr(<<"${", "config", ".", "a", "}">>)}
Natives ==
    {JObj([a |-> JObj([b |-> leaf])]) : leaf \in Leaves}
    \cup {JObj([a |-> leaf]) : leaf \in Leaves}
    \cup {JObj([c |-> JBool(FALSE)])}
Additionals == {Undef, JObj([instance |-> JNum(<<"1">>)])}

TemplateInit ==
    /\ AtRest
    /\ calc \in [op : {"parseField", "walkTheConfig"}, shape : Shapes, native : Natives,
                 additional : Additionals, out : {Undef}, done : {FALSE}]

\* a call parseField(field, instanceConfig, additionalConfig)
ParseField ==
    /\ calc.op = "parseField"
    /\ ~calc.done
    /\ calc' = [calc EXCEPT !.out = parseField(FieldOf(calc.shape), calc.native, calc.additional),
                            !.done = TRUE]
    /\ UNCHANGED world

\* the structure a field sits in: a service with the field as its image
\* and in its command list
StructureOf(field) ==
    JObj([image |-> JStr(field),
          command |-> JArr(<<JStr(<<"run">>), JStr(field)>>),
          tty |-> JBool(TRUE)])

\* a call walkTheConfig(obj, instanceConfig, additionalConfig)
WalkTheConfig ==
    /\ calc.op = "walkTheConfig"
    /\ ~calc.done
    /\ calc' = [calc EXCEPT !.out = walkTheConfig(StructureOf(FieldOf(calc.shape)),
                                                  calc.native, calc.additional),
                            !.done = TRUE]
    /\ UNCHANGED world

TemplateNext == ParseField \/ WalkTheConfig
TemplateSpec == TemplateInit /\ [][TemplateNext]_vars

\* the configs the differ is called with: with or without mounts (two mounts in either
\* order, or one bind mount of a directory .../volumes/<name>/_data), a numeric user,
\* a stop object, an expose list and an environment
DiffMounts ==
    {<<>>,
     <<JObj([type |-> JStr(<<"volume">>), source |-> JStr(<<"conf">>), target |-> JStr(<<"/config">>)]),
       JObj([type |-> JStr(<<"volume">>), source |-> JStr(<<"data">>), target |-> JStr(<<"/data">>)])>>,
     <<JObj([type |-> JStr(<<"volume">>), source |-> JStr(<<"data">>), target |-> JStr(<<"/data">>)]),
       JObj([type |-> JStr(<<"volume">>), source |-> JStr(<<"conf">>), target |-> JStr(<<"/config">>)])>>,
     <<JObj([type |-> JStr(<<"bind">>), source |-> JStr(VolumePath(<<"data">>)),
             target |-> JStr(<<"/data">>)])>>}
DiffEnvironments == {<<>>, [A |-> JStr(<<"x">>)], [A |-> JStr(<<"y">>), B |-> JStr(<<"x">>)]}
DiffConfigs ==
    {JObj((IF ms # <<>> THEN "mounts" :> JArr(ms) ELSE <<>>)
          @@ (IF user THEN "user" :> JNum(<<"1", "0", "0", "0">>) ELSE <<>>)
          @@ (IF stop THEN "stop" :> JObj([gracePeriodSec |-> JNum(<<"1", "0">>)]) ELSE <<>>)
          @@ (IF expose THEN "expose" :> JArr(<<JNum(<<"8", "0">>)>>) ELSE <<>>)
          @@ (IF env # <<>> THEN "environment" :> JObj(env) ELSE <<>>)
          @@ [name |-> JStr(<<"app">>), image |-> JStr(<<"app", ":", "latest">>),
              iobEnabled |-> JBool(TRUE)]) :
        ms \in DiffMounts, user \in BOOLEAN, stop \in BOOLEAN, expose \in BOOLEAN,
        env \in DiffEnvironments}

\* the port lists: two bindings with host ports and container ports that differ,
\* without host port, with the same host port and container port (one udp, one tcp),
\* with the same host port on two host addresses, and with the same container port on
\* two host ports
Port(containerPort, hostPort) ==
    JObj([containerPort |-> JNum(containerPort), hostPort |-> JNum(hostPort)])
DiffPorts ==
    {<<Port(<<"8", "0">>, <<"8", "0", "8", "0">>), Port(<<"4", "4", "3">>, <<"8", "4", "4", "3">>)>>,
     <<JObj([containerPort |-> JNum(<<"8", "0">>)]), JObj([containerPort |-> JNum(<<"4", "4", "3">>)])>>,
     <<Put(Port(<<"5", "3">>, <<"5", "3">>), "protocol", JStr(<<"udp">>)),
       Put(Port(<<"5", "3">>, <<"5", "3">>), "protocol", JStr(<<"tcp">>))>>,
     <<Put(Port(<<"8", "0">>, <<"8", "0">>), "hostIP", JStr(<<"127.0.0.1">>)),
       Put(Port(<<"8", "1">>, <<"8", "0">>), "hostIP", JStr(<<"0.0.0.0">>))>>,
     <<Port(<<"8", "0">>, <<"8", "0", "8", "0">>), Port(<<"8", "0">>, <<"8", "0", "8", "1">>)>>}
PortConfigs ==
    {JObj([name |-> JStr(<<"app">>), image |-> JStr(<<"app", ":", "latest">>),
           ports |-> JArr(ps)]) : ps \in DiffPorts}

\* a number as its decimal string
Decimal(x) == IF x.t = "num" THEN JStr(x.v) ELSE x
Reverse(s) == [i \in 1..Len(s) |-> s[Len(s) + 1 - i]]
\* the pair compareConfigs is called with, made from a pair of configs:
\* the observed config gains a field the desired one lacks (at the top, in a nested
\* object, in an element of an array), the desired one loses a field, or the observed
\* config is the desired one with a number written as a string or the mounts reversed
Variations ==
    {"none", "addTop", "addNested", "addElement", "dropTop", "dropNested",
     "topText", "nestedText", "elementText", "reorder", "reorderPorts"}
Varied(d, o, vary) ==
    CASE vary = "addTop" -> <<d, Put(o, "workdir", JStr(<<"/w">>))>>
      [] vary = "addNested" ->
            <<d, Put(o, "stop", Put(IF Get(o, "stop").t = "obj" THEN Get(o, "stop") ELSE JObj(<<>>),
                                    "signal", JStr(<<"TERM">>)))>>
      [] vary = "addElement" ->
            <<d, IF Get(o, "mounts").t = "arr"
                     THEN Put(o, "mounts", JArr([i \in 1..Len(Get(o, "mounts").v) |->
                              Put(Get(o, "mounts").v[i], "consistency", JStr(<<"cached">>))]))
                     ELSE o>>
      [] vary = "dropTop" -> <<Del(d, "user"), o>>
      [] vary = "dropNested" ->
            <<IF Get(d, "stop").t = "obj" THEN Put(d, "stop", JObj(<<>>)) ELSE d, o>>
      [] vary = "topText" -> <<d, IF "user" \in Keys(d) THEN Put(d, "user", Decimal(Get(d, "user"))) ELSE d>>
      [] vary = "nestedText" ->
            <<d, IF "stop" \in Keys(d)
                     THEN Put(d, "stop", JObj([gracePeriodSec |-> Decimal(Get(Get(d, "stop"), "gracePeriodSec"))]))
                     ELSE d>>
      [] vary = "elementText" ->
            <<d, IF "expose" \in Keys(d)
                     THEN Put(d, "expose", JArr([i \in 1..Len(Get(d, "expose").v) |->
                                                    Decimal(Get(d, "expose").v[i])]))
                     ELSE d>>
      [] vary = "reorder" ->
            <<d, IF "mounts" \in Keys(d) THEN Put(d, "mounts", JArr(Reverse(Get(d, "mounts").v))) ELSE d>>
      [] vary = "reorderPorts" ->
            <<cleanContainerConfig(d, FALSE),
              cleanContainerConfig(Put(d, "ports", JArr(Reverse(Get(d, "ports").v))), FALSE)>>
      [] OTHER -> <<d, o>>

\* the configs the canonicalizer is called with: an environment or labels whose values
\* are strings, empty strings, false or 0, and a command of one string
CleanMaps ==
    {[A |-> JStr(<<"x">>)], [A |-> JStr(<<>>)], [A |-> JBool(FALSE)], [A |-> JNum(<<"0">>)],
     [A |-> JStr(<<"x">>), B |-> JBool(FALSE)], [A |-> JStr(<<>>), B |-> JNum(<<"0">>)]}
CleanConfigs ==
    DiffConfigs \cup PortConfigs
    \cup {JObj([name |-> JStr(<<"app">>), image |-> JStr(<<"app", ":", "latest">>),
                environment |-> JObj(m)]) : m \in CleanMaps}
    \cup {JObj([name |-> JStr(<<"app">>), image |-> JStr(<<"app", ":", "latest">>),
                labels |-> JObj(m)]) : m \in CleanMaps}
    \cup {JObj([name |-> JStr(<<"app">>), image |-> JStr(<<"app", ":", "latest">>),
                command |-> JArr(<<JStr(<<"run">>)>>), tty |-> JBool(FALSE),
                networkMode |-> JStr(<<"bridge">>)])}

DiffInit ==
    /\ AtRest
    /\ \/ \E d \in DiffConfigs, o \in DiffConfigs,
             vary \in {"none", "addTop", "addNested", "addElement", "dropTop", "dropNested"} :
               calc = [op |-> "compareConfigs", vary |-> vary, base |-> <<d, o>>,
                       desired |-> Varied(d, o, vary)[1], observed |-> Varied(d, o, vary)[2],
                       mayChange |-> FALSE, out |-> Undef, again |-> Undef, pc |-> "called"]
       \/ \E d \in DiffConfigs, vary \in {"topText", "nestedText", "elementText", "reorder"} :
               calc = [op |-> "compareConfigs", vary |-> vary, base |-> <<d, d>>,
                       desired |-> Varied(d, d, vary)[1], observed |-> Varied(d, d, vary)[2],
                       mayChange |-> FALSE, out |-> Undef, again |-> Undef, pc |-> "called"]
       \/ \E d \in PortConfigs :
               calc = [op |-> "compareConfigs", vary |-> "reorderPorts", base |-> <<d, d>>,
                       desired |-> Varied(d, d, "reorderPorts")[1],
                       observed |-> Varied(d, d, "reorderPorts")[2],
                       mayChange |-> FALSE, out |-> Undef, again |-> Undef, pc |-> "called"]
       \/ \E c \in CleanConfigs, mayChange \in BOOLEAN :
               calc = [op |-> "cleanContainerConfig", vary |-> "none", base |-> <<c, c>>,
                       desired |-> c, observed |-> c,
                       mayChange |-> mayChange, out |-> Undef, again |-> Undef, pc |-> "called"]

\* a call compareConfigs(desired, existing)
CompareConfigs ==
    /\ calc.op = "compareConfigs"
    /\ calc.pc = "called"
    /\ calc' = [calc EXCEPT !.out = compareConfigs(calc.desired, calc.observed), !.pc = "done"]
    /\ UNCHANGED world

\* a call cleanContainerConfig(obj, mayChange)
CleanContainerConfig ==
    /\ calc.op = "cleanContainerConfig"
    /\ calc.pc = "called"
    /\ calc' = [calc EXCEPT !.out = cleanContainerConfig(calc.desired, calc.mayChange),
                            !.pc = "cleaned"]
    /\ UNCHANGED world

\* a call of cleanContainerConfig with the result of the first call
CleanContainerConfigAgain ==
    /\ calc.op = "cleanContainerConfig"
    /\ calc.pc = "cleaned"
    /\ calc' = [calc EXCEPT !.again = cleanContainerConfig(calc.out, calc.mayChange),
                            !.pc = "done"]
    /\ UNCHANGED world

DiffNext == CompareConfigs \/ CleanContainerConfig \/ CleanContainerConfigAgain
DiffSpec == DiffInit /\ [][DiffNext]_vars

\* the services the converter is called with: the labels as a map or a list, iobEnabled
\* absent, 'false' or a placeholder, iobBackup and iobCopyVolumes naming volumes, a
\* label of the container's own, and volumes in the short and the long form
EnabledByConfig == <<"${", "config", ".", "P", ":-", "true", "}">>
ManifestVolumes ==
    {Undef,
     JArr(<<JStr(<<"data", ":", "/data">>)>>),
     JArr(<<JStr(<<"data", ":", "/data">>), JStr(<<"conf", ":", "/config", ":", "ro">>)>>),
     JArr(<<JStr(<<"/var/lib/docker/volumes/", "data", "/_data", ":", "/data">>)>>),
     JArr(<<JObj([type |-> JStr(<<"volume">>), source |-> JStr(<<"data">>),
                  target |-> JStr(<<"/data">>)])>>)}
ManifestCopies ==
    {<<>>, <<"./seed", "=>", "data">>,
     <<"./seed", "=>", "data", ",", " ", "./etc", "=>", "conf">>}
Manifests ==
    {JObj([image |-> JStr(<<"app", ":", "latest">>),
           labels |-> LabelsOf(form,
               (IF enabled # <<>> THEN "iobEnabled" :> JStr(enabled) ELSE <<>>)
               @@ (IF backup THEN "iobBackup" :> JStr(<<"data">>) ELSE <<>>)
               @@ (IF copy # <<>> THEN "iobCopyVolumes" :> JStr(copy) ELSE <<>>)
               @@ (IF other THEN "com" :> JStr(<<"x">>) ELSE <<>>)),
           volumes |-> volumes]) :
        form \in {"map", "list"}, enabled \in {<<>>, <<"false">>, EnabledByConfig},
        backup \in BOOLEAN, copy \in ManifestCopies, other \in BOOLEAN,
        volumes \in ManifestVolumes}
ManifestNatives == {JObj([P |-> JBool(FALSE)]), JObj([P |-> JBool(TRUE)]), JObj(<<>>)}

\* the documents composeFromYaml is called with: no document, a scalar, a mapping
\* without services, and services that are a scalar, a sequence or a mapping, of
\* mappings or of something else
PlainService == JObj([image |-> JStr(<<"app", ":", "latest">>)])
ServicesIn ==
    {Undef, JStr(<<"app">>), JNum(<<"5">>), JBool(TRUE),
     JArr(<<>>), JArr(<<PlainService>>), JArr(<<JStr(<<"app">>)>>),
     JArr(<<PlainService, PlainService>>),
     JObj(<<>>), JObj([app |-> PlainService]), JObj([app |-> PlainService, db |-> PlainService]),
     JObj([app |-> JStr(<<"app">>)]), JObj([app |-> PlainService, db |-> JArr(<<PlainService>>)]),
     JObj([app |-> PlainService, db |-> Undef])}
Documents ==
    {Undef, JStr(<<"app">>)}
    \cup {Put(JObj(<<>>), "services", services) : services \in ServicesIn}
    \cup {Put(JObj([version |-> JStr(<<"3">>)]), "services", services) : services \in ServicesIn}

ConvertInit ==
    /\ AtRest
    /\ calc \in [op : {"convert"}, order : {"resolveFirst", "mapFirst"}, service : Manifests,
                 native : ManifestNatives, out : {Undef}, made : {Undef}, pc : {"called"}]
             \cup [op : {"composeFromYaml"}, raw : Documents, out : {Undef}, pc : {"called"}]

\* a call composeFromYaml(input)
ComposeFromYaml ==
    /\ calc.op = "composeFromYaml"
    /\ calc.pc = "called"
    /\ calc' = [calc EXCEPT !.out = ComposeTop(calc.raw), !.pc = "parsed"]
    /\ UNCHANGED world

\* part_000 94-99: normalize, resolve, map
ConvertResolved ==
    /\ calc.op = "convert" /\ calc.order = "resolveFirst"
    /\ calc.pc = "called"
    /\ calc' = [calc EXCEPT !.out = LoadConfigs(calc.service, calc.native)[1], !.pc = "mapped"]
    /\ UNCHANGED world

\* convert.test.js 63-65 and 82-84: normalize, map, resolve
ResolveConverted ==
    /\ calc.op = "convert" /\ calc.order = "mapFirst"
    /\ calc.pc = "called"
    /\ calc' = [calc EXCEPT
           !.out = walkTheConfig(JArr(composeToContainerConfigs(composeFromYaml(calc.service))),
                                 calc.native, JObj([instance |-> JNum(<<"1">>)])).v[1],
           !.pc = "mapped"]
    /\ UNCHANGED world

\* the config handed to dockerode
GetDockerodeConfig ==
    /\ calc.op = "convert"
    /\ calc.pc = "mapped"
    /\ calc' = [calc EXCEPT !.made = getDockerodeConfig(calc.out), !.pc = "options"]
    /\ UNCHANGED world

\* the config handed to the command line
ToDockerRun ==
    /\ calc.op = "convert"
    /\ calc.pc = "mapped"
    /\ calc' = [calc EXCEPT !.made = [t |-> "args", v |-> toDockerRun(calc.out, FALSE)], !.pc = "args"]
    /\ UNCHANGED world

\* the config compared with itself, both sides canonicalized
CompareWithItself ==
    /\ calc.op = "convert"
    /\ calc.pc = "mapped"
    /\ calc' = [calc EXCEPT
           !.made = compareConfigs(cleanContainerConfig(calc.out, FALSE),
                                   cleanContainerConfig(calc.out, FALSE)),
           !.pc = "compared"]
    /\ UNCHANGED world

ConvertNext ==
    \/ ConvertResolved \/ ResolveConverted \/ GetDockerodeConfig \/ ToDockerRun
    \/ CompareWithItself \/ ComposeFromYaml
ConvertSpec == ConvertInit /\ [][ConvertNext]_vars

----------------------------------------------------------------------------
(* Two #checkOwnContainers calls under way at once: the pass of init() and the pass
   of an ownContainerAdd or ownContainerModify call (part_002 466-473, 729-770).
   Each call has its own locals; they share #ownContainers and the runtime. *)

MaxOwn == 2         \* owned containers: the declared one and the one added by a call

\* the owned configs as far as the creations go: name, custom network, volume
OverlapConfig(name, net, vol) == [name |-> name, net |-> net, vol |-> vol]
OverlapConfigs(name) ==
    {OverlapConfig(name, net, vol) : net \in {"none", "iob_ad_0_net"},
                                     vol \in {"none", "iob_ad_0_data"}}
\* the locals of a call that has not been made
NoCheck == [pc |-> "none", c |-> 0, status |-> {}, networkChecked |-> {}, by |-> "none"]
\* lines 550-554: the first await of a call, or its end for an empty list
CheckCalled(by, own) ==
    [NoCheck EXCEPT !.pc = IF Len(own) = 0 THEN "done" ELSE "list", !.by = by]

OverlapInit ==
    /\ AtRest
    /\ calc \in [op : {"overlap"},
                 own : {<<>>} \cup {<<k>> : k \in OverlapConfigs("iob_ad_0_app")},
                 checks : {<<NoCheck, NoCheck>>},
                 containers : {{}, {"iob_ad_0_app"}},
                 networks : {{}}, volumes : {{}},
                 issued : {<<>>}, overlapped : {FALSE}]

\* lines 692-715: the container is looked up in the list read at the start of the call
CheckAfterVolumes(p, container) ==
    [p EXCEPT !.pc = IF container.name \in p.status THEN "ensure" ELSE "run"]
\* line 603: the volumes are listed for a container that mounts one
CheckAfterNetwork(p, container) ==
    IF container.vol # "none" THEN [p EXCEPT !.pc = "volumeList"]
    ELSE CheckAfterVolumes(p, container)
\* lines 558-592: the loop condition and the head of the body, up to the next await
CheckEnter(p, own) ==
    IF p.c > Len(own) THEN [p EXCEPT !.pc = "done"]
    ELSE IF own[p.c].net # "none" /\ own[p.c].net \notin p.networkChecked
        THEN [p EXCEPT !.pc = "networkList"]
    ELSE CheckAfterNetwork(p, own[p.c])
\* c++ and the next container
CheckNextContainer(p, own) == CheckEnter([p EXCEPT !.c = @ + 1], own)

Issued(i, op, target) == Append(calc.issued, [op |-> op, target |-> target, by |-> i])

\* init(), line 469: the pass of the start
OverlapStart ==
    /\ calc.op = "overlap"
    /\ calc.checks[1].pc = "none"
    /\ calc' = [calc EXCEPT !.checks[1] = CheckCalled("init", calc.own)]
    /\ UNCHANGED world

\* ownContainerAdd(container), lines 754-770: the config is appended and a pass starts
OverlapAdd ==
    /\ calc.op = "overlap"
    /\ calc.checks[1].pc # "none"
    /\ calc.checks[2].pc = "none"
    /\ Len(calc.own) < MaxOwn
    /\ \E container \in OverlapConfigs("iob_ad_0_extra") \cup OverlapConfigs("iob_ad_0_app") :
         /\ \A k \in 1..Len(calc.own) : calc.own[k].name # container.name
         /\ LET own == Append(calc.own, container)
            IN  calc' = [calc EXCEPT !.own = own,
                                     !.checks[2] = CheckCalled("add", own),
                                     !.overlapped = calc.checks[1].pc # "done"]
    /\ UNCHANGED world

\* ownContainerModify(name, changes), lines 729-751, with changes that leave name,
\* network and volume alone: the config is replaced and a pass starts
OverlapModify ==
    /\ calc.op = "overlap"
    /\ calc.checks[1].pc # "none"
    /\ calc.checks[2].pc = "none"
    /\ Len(calc.own) > 0
    /\ calc' = [calc EXCEPT !.checks[2] = CheckCalled("modify", calc.own),
                            !.overlapped = calc.checks[1].pc # "done"]
    /\ UNCHANGED world

\* line 554: containerList(true)
CheckList(i) ==
    /\ calc.checks[i].pc = "list"
    /\ calc' = [calc EXCEPT !.checks[i].status = calc.containers, !.checks[i].pc = "images"]
    /\ UNCHANGED world

\* line 555: imageList(), and the loop is entered
CheckImages(i) ==
    /\ calc.checks[i].pc = "images"
    /\ calc' = [calc EXCEPT !.checks[i] = CheckEnter([calc.checks[i] EXCEPT !.c = 1], calc.own)]
    /\ UNCHANGED world

\* lines 590-600: networkList(), and the network is looked up in what it returns
CheckNetworkList(i) ==
    /\ calc.checks[i].pc = "networkList"
    /\ LET p == calc.checks[i]
           container == calc.own[p.c]
       IN  calc' = [calc EXCEPT !.checks[i] =
               IF container.net \in calc.networks
                   THEN CheckAfterNetwork([p EXCEPT !.networkChecked = @ \cup {container.net}],
                                          container)
                   ELSE [p EXCEPT !.pc = "networkCreate"]]
    /\ UNCHANGED world

\* lines 594-598: networkCreate(name); the runtime refuses a name it has, and the
\* exception is taken by the catch of line 716
CheckNetworkCreate(i) ==
    /\ calc.checks[i].pc = "networkCreate"
    /\ LET p == calc.checks[i]
           container == calc.own[p.c]
       IN  calc' = [calc EXCEPT
               !.issued = Issued(i, "networkCreate", container.net),
               !.networks = @ \cup {container.net},
               !.checks[i] =
                   IF container.net \in calc.networks THEN CheckNextContainer(p, calc.own)
                   ELSE CheckAfterNetwork([p EXCEPT !.networkChecked = @ \cup {container.net}],
                                          container)]
    /\ UNCHANGED world

\* lines 603-605, 640-641: volumeList(), and the volume is looked up in what it returns
CheckVolumeList(i) ==
    /\ calc.checks[i].pc = "volumeList"
    /\ LET p == calc.checks[i]
           container == calc.own[p.c]
       IN  calc' = [calc EXCEPT !.checks[i] =
               IF container.vol \in calc.volumes THEN CheckAfterVolumes(p, container)
               ELSE [p EXCEPT !.pc = "volumeCreate"]]
    /\ UNCHANGED world

\* lines 642-647: volumeCreate(name); the runtime answers with the volume it has
CheckVolumeCreate(i) ==
    /\ calc.checks[i].pc = "volumeCreate"
    /\ LET p == calc.checks[i]
           container == calc.own[p.c]
       IN  calc' = [calc EXCEPT
               !.issued = Issued(i, "volumeCreate", container.vol),
               !.volumes = @ \cup {container.vol},
               !.checks[i] = CheckAfterVolumes(p, container)]
    /\ UNCHANGED world

\* lines 702-714: containerRun(container); the runtime refuses a name it has, and the
\* failure is logged
CheckContainerRun(i) ==
    /\ calc.checks[i].pc = "run"
    /\ LET p == calc.checks[i]
           container == calc.own[p.c]
       IN  calc' = [calc EXCEPT
               !.issued = Issued(i, "run", container.name),
               !.containers = @ \cup {container.name},
               !.checks[i] = CheckNextContainer(p, calc.own)]
    /\ UNCHANGED world

\* lines 698-700: #ensureActualConfiguration(container) of a container that is as asked
CheckEnsure(i) ==
    /\ calc.checks[i].pc = "ensure"
    /\ calc' = [calc EXCEPT !.checks[i] = CheckNextContainer(calc.checks[i], calc.own)]
    /\ UNCHANGED world

CheckStep(i) ==
    \/ CheckList(i) \/ CheckImages(i) \/ CheckNetworkList(i) \/ CheckNetworkCreate(i)
    \/ CheckVolumeList(i) \/ CheckVolumeCreate(i) \/ CheckContainerRun(i) \/ CheckEnsure(i)

OverlapNext ==
    \/ OverlapStart \/ OverlapAdd \/ OverlapModify
    \/ \E i \in {1, 2} : CheckStep(i)
OverlapSpec == OverlapInit /\ [][OverlapNext]_vars

\* every started asynchronous call goes on, and an armed timer fires
MonitorStep == MonitorStart \/ MonitorStats \/ MonitorSkip \/ MonitorEnd
DestroyStep == DestroyStop \/ DestroySkip \/ DestroyEnd

\* whenever a pass is under way the awaited call settles and the pass runs on
PassRunsOn == pass.pc # "idle" /\ turn' = ~turn

LiveSpec ==
    /\ Spec
    /\ WF_turn(PassRunsOn)
    /\ WF_vars(MonitorTick)
    /\ WF_vars(MonitorStep)
    /\ WF_vars(DestroyStep)
    /\ WF_vars(PassQueued)
    /\ WF_vars(RemoveRuntime)

----------------------------------------------------------------------------
(* Properties *)

ListedUp(status) == status = "running" \/ status = "restarting"
HasOp(h, op) == \E i \in 1..Len(h) : h[i].op = op
OpAt(h, i, op) == i >= 1 /\ i <= Len(h) /\ h[i].op = op /\ h[i].ok
StrName(cfg) == IF Get(cfg, "name").t = "str" THEN Get(cfg, "name").v ELSE <<>>
IsDisabled(cfg) == IF Get(cfg, "iobEnabled").t = "bool" THEN ~Get(cfg, "iobEnabled").v ELSE FALSE
IsSet(cfg, k) == IF Get(cfg, k).t = "bool" THEN Get(cfg, k).v ELSE FALSE
InBody == pass.pc \notin {"idle", "list", "head"}

C2_BuiltinNetwork(nm) ==
    \/ nm.t \in {"undef", "null"}
    \/ (IF nm.t = "bool" THEN ~nm.v ELSE FALSE)
    \/ (IF nm.t = "str" THEN nm.v \in {<<>>, <<"container">>, <<"host">>, <<"bridge">>, <<"none">>}
         ELSE FALSE)
C2_Provisioned(cfg) ==
    /\ ~C2_BuiltinNetwork(Get(cfg, "networkMode")) => Get(cfg, "networkMode").v \in rtNetworks
    /\ \A i \in 1..Len(Mounts(cfg)) :
         LET mount == Mounts(cfg)[i]
         IN  (IsStr(Get(mount, "type"), <<"volume">>) /\ Get(mount, "source").t = "str") =>
                 /\ Get(mount, "source").v \in rtVolumes
                 /\ Get(mount, "source").v \in pass.volumes \cup pass.createdVols
C2_RunAfterProvisioning == pass.pc = "run" => C2_Provisioned(Own(pass.c))

C2_RunOnCreatedVolume ==
    /\ pass.pc = "run"
    /\ pass.containerInfo = NoInfo
    /\ ~C2_BuiltinNetwork(Get(Own(pass.c), "networkMode"))
    /\ \E i \in 1..Len(Mounts(Own(pass.c))) :
         Get(Mounts(Own(pass.c))[i], "source").v \in pass.createdVols

\* C3: after the body of an existing enabled container whose diff was empty, the pass
\* has issued no stop, remove, create or run for it, and it has issued a start exactly
\* when the list showed the container with a status other than running or restarting.
C3_MatchingOnlyStarted ==
    (pass.pc = "head" /\ pass.diff = "empty") =>
        /\ ~HasOp(hist, "stop") /\ ~HasOp(hist, "remove")
        /\ ~HasOp(hist, "create") /\ ~HasOp(hist, "run")
        /\ HasOp(hist, "start") <=> (pass.seen # "missing" /\ ~ListedUp(pass.seen))

C3_MatchingStarted ==
    /\ pass.pc = "head"
    /\ pass.diff = "empty"
    /\ pass.seen \in {"exited", "created"}
    /\ HasOp(hist, "start")

\* C4: no runtime operation names a disabled container, its network, its volumes or
\* its image, whoever issues it, and the body of the pass never runs for a disabled
\* container.
C4_Names(x) == IF x.t = "str" THEN {x.v, Prefix \o Sep \o x.v} ELSE {}
C4_Resources(cfg) ==
    C4_Names(Get(cfg, "name")) \cup C4_Names(Get(cfg, "networkMode"))
    \cup {Get(cfg, "image").v, Get(cfg, "image").v \o <<":", "latest">>}
    \cup UNION {C4_Names(Get(Mounts(cfg)[i], "source")) : i \in 1..Len(Mounts(cfg))}
C4_DisabledUntouched ==
    /\ \A i \in 1..Len(declared) :
         (IsDisabled(declared[i]) /\ lastOp.actor \in {"pass", "monitor", "destroy"}) =>
             lastOp.target \notin C4_Resources(declared[i])
    /\ InBody => ~IsDisabled(Own(pass.c))

C4_DisabledPassedOver ==
    /\ pass.result = "done"
    /\ des.pc = "done"
    /\ mon.pc = "loop"
    /\ \E i \in 1..Len(ownContainers) : IsDisabled(Own(i)) /\ mon.c > i

\* C5: a pass that follows a pass without errors, with the desired configs and the
\* runtime unchanged in between, finds no drift, runs no container and issues no
\* create, remove, stop, run, network create or volume create.
C5_Changes == {"create", "remove", "stop", "run", "networkCreate", "volumeCreate"}
C5_Idempotent ==
    pass.idem =>
        /\ pass.ops \cap C5_Changes = {}
        /\ pass.diff # "drift"
        /\ pass.pc # "run"

\* C6: a pass that has ended has ended normally, with the body entered for every
\* container of the owned list.
C6_PassCompletes ==
    (pass.pc = "idle" /\ pass.result # "none") =>
        /\ pass.result = "done"
        /\ pass.processed = 1..Len(ownContainers)

\* C7: the monitor issues no start to the runtime for a container while the pass is
\* between the stop, the remove and the create of a recreate of that container.
C7_Serialized ==
    ~ /\ lastOp.actor = "monitor"
      /\ lastOp.op = "start"
      /\ "exec" \in lastOp.flags
      /\ pass.pc \in {"rcRemove", "rcCreate"}
      /\ HasOp(hist, "stop") \/ HasOp(hist, "remove")
      /\ lastOp.target = StrName(pass.desired)

\* C8: in a tick, each container the loop has passed got one start attempt when it is
\* enabled and monitored and the list of the tick did not show it running or
\* restarting, and none otherwise; every failed attempt has left the status of that
\* list, or 'unknown', in the stats map.
C8_Count(seq, x) == Cardinality({i \in 1..Len(seq) : seq[i] = x})
C8_Starts(i) == {k \in 1..Len(mon.pos) : mon.pos[k] = i /\ mon.started[k] = mon.seen[i]}
C8_Listed(name) ==
    IF \E k \in mon.containers : k.names = name
        THEN (CHOOSE k \in mon.containers : k.names = name).status
        ELSE "unknown"
C8_Due(cfg, name) ==
    /\ ~IsDisabled(cfg)
    /\ IsSet(cfg, "iobMonitoringEnabled")
    /\ ~ListedUp(C8_Listed(name))
C9_Needs(i) ==
    /\ ~destroyed
    /\ i <= Len(ownContainers)
    /\ ~IsDisabled(Own(i))
    /\ IsSet(Own(i), "iobMonitoringEnabled")
    /\ Get(Own(i), "name").t = "str"
    /\ ~\E k \in rtContainers : k.name = StrName(Own(i)) /\ ListedUp(k.status)
C9_Attempt(i) ==
    /\ i <= Len(ownContainers)
    /\ lastOp.actor = "monitor"
    /\ lastOp.op = "start"
    /\ lastOp.target = StrName(Own(i))
C9_TimerRetries == \A i \in 1..2 : C9_Needs(i) ~> (C9_Attempt(i) \/ ~C9_Needs(i))

\* C9, with the timer armed: whenever the timer is armed and an enabled monitored
\* container of the owned list is not up, a tick eventually attempts to start it (or
\* the container comes up, or the timer is cleared by destroy or the end of the process).
C9_ArmedTimerRetries ==
    \A i \in 1..2 :
        (monitoringInterval /\ C9_Needs(i)) ~>
            (C9_Attempt(i) \/ ~C9_Needs(i) \/ ~monitoringInterval)

C9_RetryAfterFailure ==
    /\ monitoringInterval
    /\ budget.faults = 0
    /\ lastOp.actor = "monitor" /\ lastOp.op = "start"
    /\ "ok" \in lastOp.flags
    /\ mon.failed = {}
    /\ lastOp.target \in DOMAIN ownContainersStats

C11_WasListed(cfg) == \E it \in pass.status : it.names = StrName(cfg)
C12_Step == call' # call /\ call'.op \in {"add", "rename"}
C12_Conflict ==
    \E i \in 1..Len(ownContainers) :
        /\ StrName(Own(i)) = call'.to
        /\ call'.op = "rename" =>
               /\ IndexOfName(JStr(call'.name)) \notin {0, i}
               /\ StrName(Own(IndexOfName(JStr(call'.name)))) # call'.to
C12_NothingDone ==
    /\ call'.thrown
    /\ lastOp'.op = "none"
    /\ UNCHANGED <<ownContainers, monitoringInterval, pass, pending, rtContainers,
                   rtNetworks, rtVolumes, rtImages, ownContainersStats>>
C12_RenameRejected ==
    /\ call.thrown
    /\ call.op = "rename"
    /\ IndexOfName(JStr(call.name)) # 0
    /\ \E i \in 1..Len(ownContainers) : StrName(Own(i)) = call.to

\* C13: when the declared names are pairwise distinct, no two configs of the owned
\* list have the same name, whatever calls of addContainer and modifyContainer
\* came between the steps of the passes.
C13_Distinct(cfgs) ==
    \A i, j \in 1..Len(cfgs) : i # j => Get(cfgs[i], "name") # Get(cfgs[j], "name")
C13_UniqueNames == C13_Distinct(declared) => C13_Distinct(ownContainers)

C13_AddedBeforeRenaming ==
    /\ call.op = "add"
    /\ ~call.thrown
    /\ pass.pc = "list"
    /\ pending = 1
    /\ \E i \in 1..Len(ownContainers) :
          modifyContainerName(Get(Own(i), "name")) = JStr(call.to) /\ StrName(Own(i)) # call.to

\* C14: once a removeContainer call is over, a removal the runtime refused has left the
\* config in the owned list and an armed timer armed; and the config is gone from the
\* owned list only when the runtime holds no container of that name.
C14_Over == call.op = "remove" /\ call.pc = "idle" /\ ~call.thrown /\ ~destroyed
C14_Owned == \E i \in 1..Len(ownContainers) : StrName(Own(i)) = call.name
C14_FailedRemovalKeeps ==
    C14_Over =>
        /\ call.failed => (C14_Owned /\ (call.timer => monitoringInterval))
        /\ ~C14_Owned => ~\E k \in rtContainers : k.name = call.name

C14_RemovalRefused == C14_Over /\ call.failed
C14_Removed == C14_Over /\ ~call.failed /\ ~C14_Owned /\ lastOp.op = "remove" /\ "ok" \in lastOp.flags

\* C15: each step of the loop of destroy stops the container of the config it is at
\* when that config is enabled and has iobStopOnUnload set, and otherwise issues
\* nothing and leaves every container of the runtime as it is; and once destroy has
\* returned the monitor timer is not armed.
C15_Eligible(cfg) == ~IsDisabled(cfg) /\ IsSet(cfg, "iobStopOnUnload")
C15_LoopStep == des' # des /\ des.pc = "loop" /\ des.c <= Len(ownContainers)
C15_StopsExactly ==
    [][C15_LoopStep =>
          IF C15_Eligible(Own(des.c))
              THEN /\ lastOp'.actor = "destroy"
                   /\ lastOp'.op = "stop"
                   /\ lastOp'.target = Name(Own(des.c))
              ELSE /\ lastOp'.op = "none"
                   /\ rtContainers' = rtContainers]_vars
C15_TimerOff == des.pc = "done" => ~monitoringInterval

C15_KeptRunning ==
    /\ des.pc = "done"
    /\ \E i \in 1..Len(ownContainers) :
          /\ ~IsDisabled(Own(i))
          /\ ~IsSet(Own(i), "iobStopOnUnload")
          /\ \E k \in rtContainers : k.name = StrName(Own(i)) /\ k.status = "running"
    /\ \E j \in 1..Len(ownContainers) :
          /\ C15_Eligible(Own(j))
          /\ \E k \in rtContainers : k.name = StrName(Own(j)) /\ k.status = "exited"

\* C16: with a loaded config whose iobWaitForReady is true, until instanceIsReady()
\* is called there is no manager: no pass is under way or done, no step has issued a
\* runtime operation, no timer is armed and no tick or destroy is under way.
C16_AnyWaits == \E i \in 1..Len(declared) : IsSet(declared[i], "iobWaitForReady")
C16_NothingBeforeReady ==
    (C16_AnyWaits /\ plugin # "ready") =>
        /\ pass.pc = "idle" /\ pass.result = "none"
        /\ lastOp.op = "none" /\ hist = <<>>
        /\ ~monitoringInterval /\ mon.pc = "idle" /\ des.pc = "idle"

C16_StartedWhenReady ==
    /\ C16_AnyWaits
    /\ plugin = "ready"
    /\ pass.result = "done"
    /\ \E k \in rtContainers : k.status = "running"

\* C17: while the owned list holds the declared configs, the name, the custom
\* networkMode and every volume-mount source of an enabled config are the declared
\* value or that value with the prefix applied once, never anything else; the name and
\* the networkMode of a config a pass has entered, and the mount sources of a config
\* whose provisioning a pass without errors has gone through, are the prefixed ones.
C17_Once(v) ==
    IF v = Prefix \/ StartsWith(v, Prefix \o Sep) THEN v ELSE Prefix \o Sep \o v
\* the rule with the values the code treats apart: true stands for the prefix itself,
\* and the network 'iobroker' keeps its name
C17_Rule(kind, v) ==
    IF v = <<"true">> THEN Prefix
    ELSE IF kind = "net" /\ v = <<"iobroker">> THEN v
    ELSE C17_Once(v)
C17_Custom(nm) ==
    nm.t = "str" /\ nm.v \notin {<<"container">>, <<"host">>, <<"bridge">>, <<"none">>}
C17_AsDeclared(i) ==
    /\ call.op = "none"
    /\ Len(ownContainers) = Len(declared)
    /\ ~IsDisabled(Own(i))
    /\ Get(declared[i], "name").t = "str"
C17_Entered(i) == i \in pass.processed
C17_Provisioned(i) ==
    /\ i \in pass.processed
    /\ ~pass.errors
    /\ pass.pc # "idle"
    /\ i < pass.c \/ pass.pc \notin {"list", "head", "netCreate", "mount", "volCreate", "copy"}
C17_Values(i, F(_, _)) ==
    LET d == declared[i]
        o == Own(i)
    IN  /\ Name(o) \in {Name(d), F("name", Name(d))}
        /\ C17_Entered(i) => Name(o) = F("name", Name(d))
        /\ C17_Custom(Get(d, "networkMode")) =>
               /\ Get(o, "networkMode").v \in
                      {Get(d, "networkMode").v, F("net", Get(d, "networkMode").v)}
               /\ C17_Entered(i) => Get(o, "networkMode").v = F("net", Get(d, "networkMode").v)
        /\ \A m \in 1..Len(Mounts(d)) :
               LET ds == Get(Mounts(d)[m], "source").v
                   os == Get(Mounts(o)[m], "source").v
               IN  /\ os \in {ds, F("volume", ds)}
                   /\ C17_Provisioned(i) => os = F("volume", ds)
C17_OnceOnly(kind, v) == C17_Once(v)
C18_Resources(cfg) ==
    {Name(cfg), Get(cfg, "image").v, Get(cfg, "networkMode").v}
    \cup {Get(Mounts(cfg)[m], "source").v : m \in 1..Len(Mounts(cfg))}
C18_Under(p) == p.pc \notin {"idle", "list"}
C18_InListOrder ==
    [][/\ (pass.pc = "list" /\ C18_Under(pass')) => pass'.c = 1
       /\ (C18_Under(pass) /\ C18_Under(pass')) => pass'.c \in {pass.c, pass.c + 1}
       /\ C18_Under(pass') =>
              pass'.processed = 1..(IF pass'.pc = "head" THEN pass'.c - 1 ELSE pass'.c)
       /\ (lastOp'.actor = "pass" /\ lastOp'.op # "none") =>
              /\ C18_Under(pass)
              /\ pass.c \in 1..Len(ownContainers)
              /\ lastOp'.target \in C18_Resources(ownContainers'[pass.c])]_vars

C18_SecondAfterFirst ==
    /\ Len(ownContainers) >= 2
    /\ Name(Own(1)) # Name(Own(2))
    /\ pass.c = 2
    /\ lastOp.actor = "pass"
    /\ Len(hist) > 0
    /\ lastOp.target = Name(Own(2))
    /\ \E k \in rtContainers : k.name = Name(Own(1)) /\ k.status = "running"

\* C19: the canonical form takes readOnly from every mount; while the owned list
\* holds the declared configs at their positions, the config of the list, the config a
\* recreate is called with, and the container the runtime holds under the name of the
\* config have every mount read-only that was declared read-only.
C19_AsDeclared(i) ==
    /\ call.op \notin {"add", "remove"}
    /\ Len(ownContainers) = Len(declared)
    /\ ~IsDisabled(Own(i))
C19_Carries(cfg, d) ==
    \A m \in 1..Len(Mounts(d)) :
        IsTrue(Get(Mounts(d)[m], "readOnly")) =>
            /\ m <= Len(Mounts(cfg))
            /\ IsTrue(Get(Mounts(cfg)[m], "readOnly"))
C19_Held(name, d) ==
    \A k \in rtContainers :
        k.name = name =>
            \A m \in 1..Len(Mounts(d)) :
                IsTrue(Get(Mounts(d)[m], "readOnly")) =>
                    /\ m <= Len(k.insp.Mounts)
                    /\ ~k.insp.Mounts[m].RW
C19_ReCreating(i) == pass.c = i /\ pass.pc \in {"rcList", "rcRemove", "rcCreate"}
C19_ComparedOnly ==
    \A i \in 1..Len(ownContainers) :
        C19_AsDeclared(i) =>
            /\ C19_Carries(Own(i), declared[i])
            /\ C19_ReCreating(i) => C19_Carries(pass.desired, declared[i])
            /\ C19_Held(Name(Own(i)), declared[i])

C19_ReadOnlyDeclared ==
    \E i \in 1..Len(ownContainers) :
        /\ C19_AsDeclared(i)
        /\ \E m \in 1..Len(Mounts(declared[i])) : IsTrue(Get(Mounts(declared[i])[m], "readOnly"))
        /\ C19_ReCreating(i)

\* C20: the config init() has made of a service whose labels carry none of the
\* owner-control keys has iobEnabled true, iobStopOnUnload true, iobAutoImageUpdate
\* false, iobMonitoringEnabled false, and iobWaitForReady false or absent.
C20_NoOwnerKey == \A k \in OwnerKeys : compose.labels[k] = "absent"
C20_Loaded == plugin # "loading" /\ Len(declared) = 1 /\ C20_NoOwnerKey
C20_OtherDefaults ==
    C20_Loaded =>
        /\ Get(declared[1], "iobEnabled") = JBool(TRUE)
        /\ Get(declared[1], "iobAutoImageUpdate") = JBool(FALSE)
        /\ Get(declared[1], "iobMonitoringEnabled") = JBool(FALSE)
        /\ Get(declared[1], "iobWaitForReady") \in {JBool(FALSE), Undef}
C20_Defaults ==
    /\ C20_OtherDefaults
    /\ C20_Loaded => Get(declared[1], "iobStopOnUnload") = JBool(TRUE)

C20_MappedWithoutLabels == C20_Loaded /\ plugin = "started" /\ pass.pc = "list"

\* a start the monitor has just brought about, after destroy has returned, of a
\* container whose config makes destroy stop it
C37_StartedAfterDestroy ==
    /\ des.pc = "done"
    /\ lastOp.actor = "monitor" /\ lastOp.op = "start" /\ "ok" \in lastOp.flags
    /\ \E i \in 1..Len(ownContainers) :
          C15_Eligible(Own(i)) /\ Name(Own(i)) = lastOp.target

\* C37: once destroy has returned, the monitor starts no owned container that is
\* enabled and has iobStopOnUnload set, also when a tick was under way when destroy
\* was called.
C37_StaysStopped == ~C37_StartedAfterDestroy

\* a tick that was under way when destroy cleared the timer is still under way when
\* destroy has returned
C37_TickOutlivesDestroy == des.pc = "done" /\ mon.pc = "loop" /\ ~monitoringInterval
\* the timer was armed again by a pass that ended after destroy, and its tick
\* started the container destroy had stopped
C37_TimerArmedAgain == C37_StartedAfterDestroy /\ monitoringInterval

\* a manager has been constructed: its init() runs or has run
C38_Constructed == plugin \in {"started", "ready"}

\* C38: once the manager is constructed, the promise of ownContainerCheckedAll() is
\* eventually resolved, whatever the runtime answers and whatever goes wrong for a
\* container in the startup pass.
C38_EventuallyChecked == C38_Constructed ~> waitAllChecked

\* listing the containers has failed: the startup pass has ended with the exception, no
\* container was looked at, and the promise is not resolved
C38_NeverChecked ==
    /\ C38_Constructed
    /\ pass.pc = "idle" /\ pass.result = "aborted" /\ pass.processed = {}
    /\ ~waitAllChecked
\* a pass that reaches the end of its loop resolves the promise, also after failures
C38_CheckedAfterErrors ==
    /\ waitAllChecked
    /\ pass.pc = "idle" /\ pass.result = "done" /\ ~pass.idem

----------------------------------------------------------------------------
(* Template engine *)

C29_Called == calc.op = "parseField" /\ calc.done
\* the value the configuration tree holds at the path of the placeholder
C29_Value == Lookup(calc.native, Split(calc.shape.path, "."))
C29_NonString == C29_Value.t \in {"bool", "num", "arr", "obj"}

C30_PrefixOptional ==
    C29_Called /\ calc.shape.style = "bare" =>
        calc.out = parseField(FieldOf([calc.shape EXCEPT !.style = "curly"]),
                              calc.native, calc.additional)

C30_BareResolved ==
    /\ C29_Called
    /\ calc.shape.style = "bare" /\ calc.shape.wrap = "whole"
    /\ calc.additional # Undef
    /\ C29_Value = JNum(<<"8", "0">>)
    /\ calc.out = JStr(<<>>)

C31_Walked == calc.op = "walkTheConfig" /\ calc.done
C31_Fresh(s) == ~Includes(s, "{{") /\ ~Includes(s, "${")
C31_Stable(x) ==
    x.t = "str" => C31_Fresh(x.v) /\ parseField(x.v, calc.native, calc.additional) = x

\* C31: a string that parseField returns holds neither '{{' nor '${', and parseField
\* applied to it returns it unchanged; so does every string leaf of what walkTheConfig
\* returns.
C31_Resolved ==
    /\ C29_Called => C31_Stable(calc.out)
    /\ C31_Walked /\ calc.out.t = "obj" =>
           /\ C31_Stable(calc.out.v.image)
           /\ \A i \in 1..Len(calc.out.v.command.v) : C31_Stable(calc.out.v.command.v[i])

\* '${a.b}' is matched by none of the three patterns and is returned as it is
C31_MarkLeft ==
    /\ C29_Called
    /\ calc.shape.style = "other" /\ calc.shape.path = <<"a", ".", "b">>
    /\ calc.shape.wrap = "whole"
    /\ calc.out = JStr(<<"${", "a", ".", "b", "}">>)
\* a value that holds a placeholder is returned with it, and resolved by a second call
C31_ResolvedAgain ==
    /\ C29_Called
    /\ calc.shape.style = "curly" /\ calc.shape.wrap = "whole"
    /\ calc.out = JStr(<<"${", "config", ".", "a", "}">>)
    /\ parseField(calc.out.v, calc.native, calc.additional) = JObj([b |-> calc.out])
\* the same in a structure
C31_LeafMarkLeft ==
    /\ C31_Walked
    /\ calc.out.t = "obj"
    /\ calc.out.v.image.t = "str"
    /\ ~C31_Fresh(calc.out.v.image.v)

C32_HasDefault == calc.shape.style \in {"dollar", "under"} /\ calc.shape.default # <<"none">>
C32_Default == Tail(calc.shape.default)
C32_Unset == C29_Value \in {Undef, JStr(<<>>)}

\* C32: for ${config.path:-default} the default is used when the value at path is
\* undefined and when it is the empty string; otherwise the value is used.
C32_DefaultWhenEmpty ==
    C29_Called /\ C32_HasDefault /\ C31_Fresh(String(C29_Value)) =>
        IF calc.shape.wrap = "whole"
            THEN calc.out = (IF C32_Unset THEN Coerce(C32_Default) ELSE C29_Value)
            ELSE calc.out = JStr(Before(calc.shape)
                                 \o (IF C32_Unset THEN C32_Default ELSE String(C29_Value))
                                 \o After(calc.shape))

\* the value is the empty string, the default is 'v', and the result is the empty string
C32_EmptyKept ==
    /\ C29_Called
    /\ calc.shape.style = "dollar" /\ calc.shape.wrap = "whole"
    /\ calc.shape.default = <<":-", "v">>
    /\ C29_Value = JStr(<<>>)
    /\ calc.out = JStr(<<>>)
\* the value is undefined and the result is the default
C32_DefaultUsed ==
    /\ C29_Called
    /\ calc.shape.style = "dollar" /\ calc.shape.wrap = "whole"
    /\ calc.shape.default = <<":-", "v">>
    /\ C29_Value = Undef
    /\ calc.out = JStr(<<"v">>)
\* the same rule without the empty string
C32_DefaultWhenUndefined ==
    C29_Called /\ C32_HasDefault /\ C31_Fresh(String(C29_Value)) =>
        IF calc.shape.wrap = "whole"
            THEN calc.out = (IF C29_Value = Undef THEN Coerce(C32_Default) ELSE C29_Value)
            ELSE calc.out = JStr(Before(calc.shape)
                                 \o (IF C29_Value = Undef THEN C32_Default ELSE String(C29_Value))
                                 \o After(calc.shape))

\* C36: every call of parseField comes to an end: none of its three loops goes on
\* for ever, whatever the field and the configuration tree.
C36_Terminates == C29_Called => calc.out # Hang

\* '{{config.}}': the path is empty and the loop goes on with the field as it was
C36_EmptyPathHangs ==
    /\ C29_Called
    /\ calc.shape.style = "curly" /\ calc.shape.path = <<>>
    /\ calc.out = Hang
\* the value at a is 'x' followed by the placeholder of a, which is put back each time
C36_OwnPlaceholderHangs ==
    /\ C29_Called
    /\ calc.shape.style = "dollar" /\ calc.shape.path = <<"a">> /\ calc.shape.wrap = "head"
    /\ C29_Value = JStr(<<"${", "config", ".", "a", "}">>)
    /\ calc.out = Hang
\* a call on a placeholder with a path, on a tree without placeholders, ends
C36_TerminatesOtherwise ==
    C29_Called /\ calc.shape.path # <<>> /\ C31_Fresh(String(C29_Value)) => calc.out # Hang

----------------------------------------------------------------------------
(* Canonicalizer and differ *)

C24_Compared == calc.op = "compareConfigs" /\ calc.pc = "done"
C24_NoDiff == [t |-> "diffs", v |-> {}]

\* C24: when the observed config is the desired one with its mounts in another order,
\* compareConfigs returns an empty list of differences, with which the pass does not
\* recreate the container.
C24_OrderIgnored ==
    C24_Compared /\ calc.vary = "reorder" /\ calc.observed # calc.desired =>
        calc.out = C24_NoDiff

C24_Reordered ==
    /\ C24_Compared /\ calc.vary = "reorder"
    /\ Len(Mounts(calc.desired)) = 2
    /\ calc.observed # calc.desired
    /\ calc.out = C24_NoDiff

C25_Base == compareConfigs(calc.base[1], calc.base[2])

C27_CleanedTwice == calc.op = "cleanContainerConfig" /\ calc.pc = "done"
C27_OnlyFalsy(key) ==
    /\ Get(calc.desired, key).t = "obj"
    /\ \A k \in Keys(Get(calc.desired, key)) : Falsy(Get(Get(calc.desired, key), k))

\* C27: cleanContainerConfig(cleanContainerConfig(c)) = cleanContainerConfig(c), also
\* for a config whose environment or labels hold only empty or falsy values.
C27_Idempotent == C27_CleanedTwice => calc.again = calc.out

\* the same for the configs the claim's words leave: those whose environment and labels
\* hold a truthy value or only empty strings
C27_IdempotentOtherwise ==
    /\ C27_CleanedTwice
    /\ \A key \in {"environment", "labels"} :
           C27_OnlyFalsy(key) =>
               \A k \in Keys(Get(calc.desired, key)) : IsStr(Get(Get(calc.desired, key), k), <<>>)
    => calc.again = calc.out

C27_EmptyMapLeft ==
    /\ C27_CleanedTwice
    /\ C27_OnlyFalsy("environment")
    /\ Get(calc.out, "environment") = JObj(<<>>)
    /\ "environment" \notin Keys(calc.again)

C28_Text == calc.vary \in {"topText", "nestedText", "elementText"}

\* C28: compareConfigs takes a number and its decimal string for equal wherever it
\* compares them: in a top-level scalar field, in a field of a nested object, in an
\* element of an array: writing a number of the observed config as a string adds no
\* difference.
C28_NumberIsText == C24_Compared /\ C28_Text => calc.out = C25_Base

\* the same below the top level only
C28_NumberIsTextNested ==
    C24_Compared /\ calc.vary \in {"nestedText", "elementText"} => calc.out = C25_Base

C28_TopLevelDiffers ==
    /\ C24_Compared /\ calc.vary = "topText"
    /\ Get(calc.desired, "user") = JNum(<<"1", "0", "0", "0">>)
    /\ Get(calc.observed, "user") = JStr(<<"1", "0", "0", "0">>)
    /\ C25_Base = C24_NoDiff
    /\ calc.out = [t |-> "diffs", v |-> {DiffPath("user", "", 0)}]

----------------------------------------------------------------------------
(* Converter *)

C21_Reserved ==
    {"iobEnabled", "iobStopOnUnload", "iobAutoImageUpdate", "iobMonitoringEnabled",
     "iobWaitForReady", "iobBackup", "iobCopyVolumes"}
C21_Flags ==
    C21_Reserved \cup {"iobCopyVolume", "iobAutoCopyFrom", "iobAutoCopyFromForce"}
RECURSIVE C21_Mentions(_)
\* a key or a token of the value is the name of an owner-control flag
C21_Mentions(x) ==
    CASE x.t = "obj" -> \E k \in DOMAIN x.v : k \in C21_Flags \/ C21_Mentions(x.v[k])
      [] x.t = "arr" -> \E i \in 1..Len(x.v) : C21_Mentions(x.v[i])
      [] x.t = "str" -> \E i \in 1..Len(x.v) : x.v[i] \in C21_Flags
      [] x.t = "args" -> \E i \in 1..Len(x.v) : \E j \in 1..Len(x.v[i]) : x.v[i][j] \in C21_Flags
      [] OTHER -> FALSE
C21_Mapped == calc.op = "convert" /\ calc.pc # "called"

\* C21: the labels of a mapped config hold none of the seven reserved keys, and neither
\* the create options nor the command line made of the config name an owner-control
\* flag, be it a top-level field of the config or a sub-flag of a mount.
C21_FlagsStayInside ==
    /\ C21_Mapped => Keys(Get(calc.out, "labels")) \cap C21_Reserved = {}
    /\ C21_Mapped /\ calc.pc \in {"options", "args"} => ~C21_Mentions(calc.made)

C21_Labelled(made) ==
    /\ C21_Mapped /\ calc.pc = made
    /\ calc.service.v.labels.t = "arr"
    /\ Len(calc.service.v.labels.v) = 4
    /\ IsFalse(Get(calc.out, "iobEnabled"))
    /\ Keys(Get(calc.out, "labels")) = {"com"}
    /\ \E i \in 1..Len(Mounts(calc.out)) : IsTrue(Get(Mounts(calc.out)[i], "iobBackup"))
C21_OptionsMade ==
    /\ C21_Labelled("options")
    /\ Keys(Get(calc.made, "Labels")) = {"com"}
    /\ Get(Get(calc.made, "HostConfig"), "Mounts").t = "arr"
C21_ArgsMade ==
    /\ C21_Labelled("args")
    /\ \E i \in 1..Len(calc.made.v) : calc.made.v[i] = <<"com", "=", "x">>

\* the label iobEnabled of the service, in the map or in the list
C22_EnabledLabel ==
    LET labels == Get(calc.service, "labels")
    IN  IF labels.t = "obj" THEN Get(labels, "iobEnabled")
        ELSE IF labels.t = "arr" /\ \E i \in 1..Len(labels.v) : StartsWith(labels.v[i].v, <<"iobEnabled", "=">>)
            THEN LET i == CHOOSE n \in 1..Len(labels.v) : StartsWith(labels.v[n].v, <<"iobEnabled", "=">>)
                 IN  JStr(SubSeq(labels.v[i].v, 3, Len(labels.v[i].v)))
        ELSE Undef
C22_Case ==
    /\ C21_Mapped
    /\ C22_EnabledLabel = JStr(EnabledByConfig)
    /\ Get(calc.native, "P") = JBool(FALSE)
C22_Disabled ==
    /\ Get(calc.out, "iobEnabled") = JBool(FALSE)
    /\ "iobEnabled" \notin Keys(Get(calc.out, "labels"))

\* C22: for a service whose label iobEnabled is the placeholder ${config.P:-true} and a
\* configuration tree with P false, the config has iobEnabled false and no label
\* iobEnabled, whether the placeholders are resolved before the mapping or after it.
C22_DisabledByConfig == C22_Case => C22_Disabled

\* the same for the order of init() alone
C22_DisabledWhenResolvedFirst == C22_Case /\ calc.order = "resolveFirst" => C22_Disabled

C22_EnabledWhenMappedFirst ==
    /\ C22_Case /\ calc.order = "mapFirst"
    /\ Get(calc.out, "iobEnabled") = JBool(TRUE)
    /\ "iobEnabled" \notin Keys(Get(calc.out, "labels"))

\* the pairs sourcePath=>volumeName of the service's label iobCopyVolumes
C23_Pairs ==
    LET label == GetAny(normalizeLabels(Get(calc.service, "labels")), "iobCopyVolumes")
    IN  IF label = JStr(<<"./seed", "=>", "data">>) THEN {<<<<"./seed">>, <<"data">>>>}
        ELSE IF label.t = "str"
            THEN {<<<<"./seed">>, <<"data">>>>, <<<<"./etc">>, <<"conf">>>>}
        ELSE {}
C23_PairsOf(m) == {pair \in C23_Pairs : Get(m, "source") = JStr(pair[2])}

\* C23: every mapped mount whose source is the volume name of a pair of iobCopyVolumes
\* carries iobAutoCopyFrom, the field the controller seeds the volume from, with the
\* pair's source path; a mount that matches no pair carries no iobAutoCopyFrom; and no
\* mount carries iobAutoCopyFromForce.
C23_CopySourceSet ==
    C21_Mapped =>
        \A i \in 1..Len(Mounts(calc.out)) :
            LET m == Mounts(calc.out)[i]
            IN  /\ \A pair \in C23_PairsOf(m) : Get(m, "iobAutoCopyFrom") = JStr(pair[1])
                /\ C23_PairsOf(m) = {} => "iobAutoCopyFrom" \notin Keys(m)
                /\ "iobAutoCopyFromForce" \notin Keys(m)

\* what holds of the claim: nothing at mounts without a pair, and never the force flag
C23_NothingElseSet ==
    C21_Mapped =>
        \A i \in 1..Len(Mounts(calc.out)) :
            LET m == Mounts(calc.out)[i]
            IN  /\ C23_PairsOf(m) = {} => Keys(m) \cap {"iobAutoCopyFrom", "iobCopyVolume"} = {}
                /\ "iobAutoCopyFromForce" \notin Keys(m)

C23_OtherFieldSet ==
    /\ C21_Mapped
    /\ Len(Mounts(calc.out)) = 2
    /\ C23_PairsOf(Mounts(calc.out)[1]) = {<<<<"./seed">>, <<"data">>>>}
    /\ Get(Mounts(calc.out)[1], "iobCopyVolume") = JStr(<<"./seed">>)
    /\ "iobAutoCopyFrom" \notin Keys(Mounts(calc.out)[1])

C26_Compared == calc.op = "convert" /\ calc.pc = "compared"
C26_SourceIsDataPath ==
    \E i \in 1..Len(Mounts(calc.out)) : IsVolumePath(Get(Mounts(calc.out)[i], "source").v)

\* C26: for every config c the mapper produces,
\* compareConfigs(cleanContainerConfig(c), cleanContainerConfig(c)) is the empty list.
C26_Reflexive == C26_Compared => calc.made = C24_NoDiff

\* the same for the configs without a mount whose source is a path .../volumes/<name>/_data
C26_ReflexiveOtherwise == C26_Compared /\ ~C26_SourceIsDataPath => calc.made = C24_NoDiff

C26_DiffersFromItself ==
    /\ C26_Compared
    /\ C26_SourceIsDataPath
    /\ calc.made = [t |-> "diffs", v |-> {DiffPath("mounts", "", 1)}]

\* C34: when the observed config is the desired one with its ports in another order,
\* compareConfigs returns an empty list of differences, also for ports that share
\* their host port or have none.
C34_PortOrderIgnored ==
    C24_Compared /\ calc.vary = "reorderPorts" => calc.out = C24_NoDiff

C34_Ports == Get(calc.base[1], "ports").v
\* two ports without host port, in the two orders, differ at both places
C34_SameHostPortDiffers ==
    /\ C24_Compared /\ calc.vary = "reorderPorts"
    /\ \A i \in 1..Len(C34_Ports) : Get(C34_Ports[i], "hostPort") = Undef
    /\ calc.out = [t |-> "diffs", v |-> {DiffPath("ports", "", 1), DiffPath("ports", "", 2)}]
\* ports whose host ports and container ports differ are compared in one order
C34_DistinctPortsSorted ==
    /\ C24_Compared /\ calc.vary = "reorderPorts"
    /\ C34_Ports[1] = Port(<<"8", "0">>, <<"8", "0", "8", "0">>)
    /\ C34_Ports[2] = Port(<<"4", "4", "3">>, <<"8", "4", "4", "3">>)
    /\ calc.out = C24_NoDiff
\* the order is ignored when the comparator tells the two ports apart
C34_PortOrderIgnoredWhenTold ==
    C24_Compared /\ calc.vary = "reorderPorts"
        /\ ComparePorts(C34_Ports[1], C34_Ports[2]) # 0 => calc.out = C24_NoDiff

\* the fields of the desired config that are objects and that the observed config lacks
C35_AbsentObjects ==
    {k \in Keys(calc.desired) :
        ~SkipKey(k) /\ Get(calc.desired, k).t = "obj" /\ k \notin Keys(calc.observed)}

\* C35: compareConfigs returns a list of field paths for every pair of configs and never
\* throws; a field of the desired config that is an object and that the observed
\* config lacks is in the list.
C35_NeverThrows ==
    C24_Compared =>
        /\ calc.out.t = "diffs"
        /\ \A k \in C35_AbsentObjects : \E path \in calc.out.v : path.key = k

\* the desired config has a stop object, the observed one has none: a TypeError
C35_AbsentObjectThrows ==
    /\ C24_Compared /\ calc.vary = "none"
    /\ C35_AbsentObjects = {"stop"}
    /\ calc.out = Throw
\* compareConfigs returns a list whenever the observed config has every object the
\* desired one has
C35_ThrowsOnlyThen ==
    C24_Compared /\ C35_AbsentObjects = {} => calc.out.t = "diffs"

----------------------------------------------------------------------------
(* Compose parser *)

C33_Parsed == calc.op = "composeFromYaml" /\ calc.pc = "parsed"
C33_Services == Get(calc.raw, "services")
C33_MappingOfMappings ==
    /\ calc.raw.t = "obj"
    /\ C33_Services.t = "obj"
    /\ \A name \in Keys(C33_Services) : C33_Services.v[name].t = "obj"

\* C33: composeFromYaml throws when `services` is absent or is no mapping (a sequence, a
\* scalar) and when a service is no mapping; it returns a manifest only when services
\* is a mapping of mappings.
C33_ThrowsUnlessMapping ==
    C33_Parsed => (calc.out = Throw <=> ~C33_MappingOfMappings)

\* `services` is a sequence of one mapping, which becomes the service '0'
C33_SequenceAccepted ==
    /\ C33_Parsed
    /\ C33_Services = JArr(<<PlainService>>)
    /\ calc.out # Throw
    /\ Keys(Get(calc.out, "services")) = {"0"}
\* without the sequences the statement holds
C33_ThrowsUnlessMappingOrSequence ==
    C33_Parsed /\ (calc.raw.t = "obj" => C33_Services.t # "arr") =>
        (calc.out = Throw <=> ~C33_MappingOfMappings)
\* a service that is no mapping is refused
C33_ScalarServiceRefused ==
    /\ C33_Parsed
    /\ C33_Services = JObj([app |-> JStr(<<"app">>)])
    /\ calc.out = Throw

----------------------------------------------------------------------------
(* Overlapping passes *)

\* the number of times an operation was issued for a name
IssuedTimes(op, target) ==
    Cardinality({k \in 1..Len(calc.issued) :
                    calc.issued[k].op = op /\ calc.issued[k].target = target})
OverlapOps == {"run", "networkCreate", "volumeCreate"}
OverlapNames ==
    {"iob_ad_0_app", "iob_ad_0_extra", "iob_ad_0_net", "iob_ad_0_data"}

\* C39: when passes overlap in time, create-and-start is issued at most once for each
\* absent container name, and volume or network creation at most once for each
\* missing resource name
C39_IssuedOnce ==
    calc.op = "overlap" =>
        \A op \in OverlapOps, target \in OverlapNames : IssuedTimes(op, target) <= 1

\* two passes under way at once have both issued create-and-start for one name
C39_RunTwice ==
    /\ calc.op = "overlap"
    /\ calc.overlapped
    /\ \E target \in OverlapNames : IssuedTimes("run", target) = 2
\* two passes under way at once have both created one volume
C39_VolumeTwice ==
    /\ calc.op = "overlap"
    /\ calc.overlapped
    /\ \E target \in OverlapNames : IssuedTimes("volumeCreate", target) = 2
\* two passes under way at once have both created one network
C39_NetworkTwice ==
    /\ calc.op = "overlap"
    /\ calc.overlapped
    /\ \E target \in OverlapNames : IssuedTimes("networkCreate", target) = 2
\* a pass that starts after the other one has ended issues nothing a second time
C39_IssuedOnceWhenApart ==
    (calc.op = "overlap" /\ ~calc.overlapped) =>
        \A op \in OverlapOps, target \in OverlapNames : IssuedTimes(op, target) <= 1

----------------------------------------------------------------------------
(* Renaming an owned container *)

\* ownContainerModify(name, {name: to}) has replaced the config under another name
C40_Renamed == call.op = "rename" /\ ~call.thrown /\ call.name # call.to
\* ... and the pass it asked for has run to its end
C40_Completed ==
    C40_Renamed /\ pass.pc = "idle" /\ pass.result = "done" /\ pending = 0 /\ ~destroyed
C40_OldInRuntime == \E k \in rtContainers : k.name = call.name
C40_OldInStats == call.name \in DOMAIN ownContainersStats
C40_NewInRuntime == \E k \in rtContainers : k.name = call.to

\* C40: after a modifyContainer call that renames an owned container has completed,
\* the runtime holds no container under the old prefixed name and the stats map has
\* no entry under the old name
C40_OldNameGone == C40_Completed => ~C40_OldInRuntime /\ ~C40_OldInStats

\* the rename is over, the container of the new name runs, and the one of the old
\* name is still in the runtime, owned by nobody
C40_OldContainerLeft ==
    /\ C40_Completed
    /\ C40_OldInRuntime /\ C40_NewInRuntime
    /\ \A i \in 1..Len(ownContainers) : StrName(Own(i)) # call.name
\* the rename is over and the stats map still has the entry of the old name
C40_OldStatsLeft == C40_Completed /\ C40_OldInStats

====
